---- MODULE Spec2Model ----
(***************************************************************************)
(* Homology-arm boundary inference of knock-knock                          *)
(* (knock_knock/build_targets.py, identify_homology_arms).                 *)
(*                                                                         *)
(* Sequences are TLA+ sequences of one-letter strings. Positions in the    *)
(* definitions are the 0-based, end-exclusive positions of the Python      *)
(* source; only the indexing of a TLA+ sequence adds one.                  *)
(***************************************************************************)
EXTENDS Integers, Sequences, FiniteSets, TLC

(* ------------------------------ bounds --------------------------------- *)

MaxTargetLen == 6
MaxDonorLen == 7
\* the values of required_match_length the calls of the model pass (the
\* default of the source, 15, is used by the worked example only)
MatchLengths == {2}

Bases == {"A", "T"}

Min(a, b) == IF a <= b THEN a ELSE b
Max(a, b) == IF a >= b THEN a ELSE b

Seqs(n) == [1..n -> Bases]
TargetSeqs == Seqs(MaxTargetLen)
DonorSeqs == Seqs(MaxDonorLen)
DonorTypes == {"PCR", "plasmid"}

(* ------------------------- string primitives --------------------------- *)

\* s[a:b] for 0 <= a, 0 <= b
Slice(s, a, b) == SubSeq(s, a + 1, Min(b, Len(s)))

\* s[-k:] for k > 0
Tail_k(s, k) == SubSeq(s, Max(Len(s) - k, 0) + 1, Len(s))

\* s[::-1]
Reversed(s) == [i \in 1..Len(s) |-> s[Len(s) + 1 - i]]

Complement(b) ==
    CASE b = "A" -> "T"
      [] b = "T" -> "A"
      [] b = "C" -> "G"
      [] b = "G" -> "C"
      [] OTHER -> "N"

\* utilities.reverse_complement
reverse_complement(s) == [i \in 1..Len(s) |-> Complement(s[Len(s) + 1 - i])]

\* the normalisation Python applies to a slice index of str.find / str.rfind
NormIndex(i, n) == IF i < 0 THEN Max(n + i, 0) ELSE Min(i, n)

OccursAt(s, sub, i) ==
    /\ i >= 0
    /\ i + Len(sub) <= Len(s)
    /\ \A k \in 1..Len(sub) : s[i + k] = sub[k]

\* s.find(sub, start): the lowest index at or after start, -1 if none
RECURSIVE FindFrom(_, _, _)
FindFrom(s, sub, i) ==
    IF i + Len(sub) > Len(s) THEN -1
    ELSE IF OccursAt(s, sub, i) THEN i
    ELSE FindFrom(s, sub, i + 1)

\* find that searches the whole string whatever the start
find_anywhere(s, sub, start) == FindFrom(s, sub, 0)

find(s, sub, start) == FindFrom(s, sub, NormIndex(start, Len(s)))

\* s.rfind(sub, start, end): the highest index whose occurrence lies in
\* s[start:end], -1 if none
RECURSIVE RFindFrom(_, _, _, _)
RFindFrom(s, sub, lo, i) ==
    IF i < lo THEN -1
    ELSE IF OccursAt(s, sub, i) THEN i
    ELSE RFindFrom(s, sub, lo, i - 1)

\* rfind returning the lowest index instead of the highest
rfind_leftmost(s, sub, start, end) ==
    LET lo == NormIndex(start, Len(s))
        hi == NormIndex(end, Len(s)) - Len(sub)
        found == {i \in lo..hi : OccursAt(s, sub, i)}
    IN  IF found = {} THEN -1
        ELSE CHOOSE i \in found : \A j \in found : i <= j

rfind(s, sub, start, end) ==
    RFindFrom(s, sub, NormIndex(start, Len(s)),
              NormIndex(end, Len(s)) - Len(sub))

(* ----------------------- seed-and-extend matcher ------------------------ *)

\* number of further positions, walking by step d (-1 or +1) from query
\* position q and reference position r, at which the two sequences agree
RECURSIVE Extend(_, _, _, _, _)
Extend(query, ref, q, r, d) ==
    IF q < 0 \/ r < 0 \/ q >= Len(query) \/ r >= Len(ref) THEN 0
    ELSE IF query[q + 1] # ref[r + 1] THEN 0
    ELSE 1 + Extend(query, ref, q + d, r + d, d)

\* the extended hit of a seed found at position j of the oriented reference
ExtendedHit(query, ref, seed_start, seed_end, j, strand) ==
    LET m == seed_end - seed_start
        a == Extend(query, ref, seed_start - 1, j - 1, -1)
        b == Extend(query, ref, seed_end, j + m, 1)
    IN  IF strand = "+"
        THEN [reference_start |-> j - a, reference_end |-> j + m + b,
              strand |-> "+"]
        ELSE [reference_start |-> Len(ref) - (j + m + b),
              reference_end |-> Len(ref) - (j - a), strand |-> "-"]

AlignmentBefore(x, y) ==
    \/ x.strand = "+" /\ y.strand = "-"
    \/ x.strand = y.strand /\ x.reference_start < y.reference_start
    \/ x.strand = y.strand /\ x.reference_start = y.reference_start
       /\ x.reference_end < y.reference_end

RECURSIVE AsList(_)
AsList(S) ==
    IF S = {} THEN <<>>
    ELSE LET x == CHOOSE x \in S : \A y \in S \ {x} : AlignmentBefore(x, y)
         IN  <<x>> \o AsList(S \ {x})

\* SeedAndExtender(reference).seed_and_extend(query, seed_start, seed_end):
\* every exact occurrence of the seed on either strand of the reference,
\* extended without gaps while the characters agree, without duplicates
seed_and_extend(reference, query, seed_start, seed_end) ==
    LET seed == Slice(query, seed_start, seed_end)
        rc == reverse_complement(reference)
        fwd == {ExtendedHit(query, reference, seed_start, seed_end, j, "+") :
                  j \in {i \in 0..Len(reference) : OccursAt(reference, seed, i)}}
        rev == {ExtendedHit(query, rc, seed_start, seed_end, j, "-") :
                  j \in {i \in 0..Len(rc) : OccursAt(rc, seed, i)}}
    IN  AsList(fwd \cup rev)

(* ------------------------ identify_homology_arms ----------------------- *)

\* seed_starts with the window nearest the cut left out on the before_cut side
seed_starts_skipping_nearest(side, target, cut, rml) ==
    IF side = "before_cut"
    THEN [i \in 1..Max(cut - rml - 1, 0) |-> cut - rml - i]
    ELSE [i \in 1..Max(Len(target) - rml - cut, 0) |-> cut + i - 1]

\* range(cut_after - required_match_length, 0, -1) and
\* range(cut_after, len(target_seq) - required_match_length)
seed_starts(side, target, cut, rml) ==
    IF side = "before_cut"
    THEN [i \in 1..Max(cut - rml, 0) |-> cut - rml + 1 - i]
    ELSE [i \in 1..Max(Len(target) - rml - cut, 0) |-> cut + i - 1]

\* ScanFrom without the break: the alignments of the last seed window that
\* has any
RECURSIVE ScanFrom_last_hit(_, _, _, _, _)
ScanFrom_last_hit(donor, target, starts, k, rml) ==
    IF k > Len(starts) THEN <<>>
    ELSE LET rest == ScanFrom_last_hit(donor, target, starts, k + 1, rml)
         IN  IF rest # <<>> THEN rest
             ELSE seed_and_extend(donor, target, starts[k], starts[k] + rml)

\* the scan of one side: the alignments of the first seed window that has
\* any, the empty list when the range is exhausted
RECURSIVE ScanFrom(_, _, _, _, _)
ScanFrom(donor, target, starts, k, rml) ==
    IF k > Len(starts) THEN <<>>
    ELSE LET als == seed_and_extend(donor, target, starts[k], starts[k] + rml)
         IN  IF als # <<>> THEN als
             ELSE ScanFrom(donor, target, starts, k + 1, rml)

ScanSide(side, donor, target, cut, rml) ==
    ScanFrom(donor, target, seed_starts(side, target, cut, rml), 1, rml)

NoAlignment == [reference_start |-> 0, reference_end |-> 0, strand |-> "."]

\* Compatible with alignments that touch accepted
Compatible_touching(before_al, after_al) ==
    /\ before_al.strand = after_al.strand
    /\ \/ before_al.strand = "+"
          /\ before_al.reference_end <= after_al.reference_start
       \/ before_al.strand = "-"
          /\ before_al.reference_start >= after_al.reference_end

\* the test that lets a (before, after) pair append a boundary
Compatible(before_al, after_al) ==
    /\ before_al.strand = after_al.strand
    /\ \/ before_al.strand = "+"
          /\ before_al.reference_end < after_al.reference_start
       \/ before_al.strand = "-"
          /\ before_al.reference_start > after_al.reference_end

\* Boundary with the window of a '-' strand pair flipped but not the donor
Boundary_without_flip(donor, before_al, after_al) ==
    IF before_al.strand = "+"
    THEN [possibly_flipped_donor_seq |-> donor,
          HA_start |-> before_al.reference_start,
          HA_end |-> after_al.reference_end,
          before_al |-> before_al, after_al |-> after_al]
    ELSE [possibly_flipped_donor_seq |-> donor,
          HA_start |-> Len(donor) - 1 - (before_al.reference_end - 1),
          HA_end |-> Len(donor) - 1 - after_al.reference_start + 1,
          before_al |-> before_al, after_al |-> after_al]

\* the tuple appended to possible_HA_boundaries for a compatible pair
\* (the two alignments are kept with it for reference)
Boundary(donor, before_al, after_al) ==
    IF before_al.strand = "+"
    THEN [possibly_flipped_donor_seq |-> donor,
          HA_start |-> before_al.reference_start,
          HA_end |-> after_al.reference_end,
          before_al |-> before_al, after_al |-> after_al]
    ELSE [possibly_flipped_donor_seq |-> reverse_complement(donor),
          HA_start |-> Len(donor) - 1 - (before_al.reference_end - 1),
          HA_end |-> Len(donor) - 1 - after_al.reference_start + 1,
          before_al |-> before_al, after_al |-> after_al]

\* the double loop over alignments['before_cut'] x alignments['after_cut']
Boundaries(donor, befores, afters) ==
    LET na == Len(afters)
        pairs == [k \in 1..(Len(befores) * na) |->
                    <<befores[((k - 1) \div na) + 1], afters[((k - 1) % na) + 1]>>]
        kept == SelectSeq(pairs, LAMBDA p : Compatible(p[1], p[2]))
    IN  [k \in 1..Len(kept) |-> Boundary(donor, kept[k][1], kept[k][2])]

(* -------------------------- boundary optimizer ------------------------- *)

\* [t != d for t, d in zip(target, donor)]
Mismatches(t, d) ==
    [p \in 1..Min(Len(t), Len(d)) |-> IF t[p] # d[p] THEN 1 ELSE 0]

\* np.cumsum
RECURSIVE cumsum(_)
cumsum(s) ==
    IF s = <<>> THEN <<>>
    ELSE LET front == cumsum(SubSeq(s, 1, Len(s) - 1))
         IN  front \o <<(IF front = <<>> THEN 0 ELSE front[Len(front)])
                          + s[Len(s)]>>

\* mismatches_before_deletion + mismatches_after_deletion (an array of one
\* element is broadcast against the other operand)
ArrayAdd(x, y) ==
    IF Len(x) = Len(y) THEN [i \in 1..Len(x) |-> x[i] + y[i]]
    ELSE IF Len(y) = 1 THEN [i \in 1..Len(x) |-> x[i] + y[1]]
    ELSE [i \in 1..Len(y) |-> x[1] + y[i]]

\* np.argmin: 0-based index of the first occurrence of the minimum
RECURSIVE ArgminFrom(_, _, _)
ArgminFrom(a, k, best) ==
    IF k > Len(a) THEN best - 1
    ELSE IF a[k] < a[best] THEN ArgminFrom(a, k + 1, k)
    ELSE ArgminFrom(a, k + 1, best)

\* argmin returning the last index of the array
argmin_last_index(a) == Len(a) - 1

\* argmin returning the last occurrence of the minimum
RECURSIVE ArgminLastFrom(_, _, _)
ArgminLastFrom(a, k, best) ==
    IF k > Len(a) THEN best - 1
    ELSE IF a[k] <= a[best] THEN ArgminLastFrom(a, k + 1, k)
    ELSE ArgminLastFrom(a, k + 1, best)

argmin_last_minimum(a) == ArgminLastFrom(a, 2, 1)

argmin(a) == ArgminFrom(a, 2, 1)

mismatches_before_deletion(relevant_target_seq, donor_window) ==
    cumsum(Mismatches(relevant_target_seq, donor_window))

\* mismatches_after_deletion counted at the same positions as
\* mismatches_before_deletion, the two sequences compared from their left ends
mismatches_after_left_aligned(relevant_target_seq, donor_window) ==
    LET flipped == Reversed(Mismatches(relevant_target_seq, donor_window))
    IN  Reversed(cumsum(<<0>> \o SubSeq(flipped, 1, Len(flipped) - 1)))

mismatches_after_deletion(relevant_target_seq, donor_window) ==
    LET flipped == Mismatches(Reversed(relevant_target_seq),
                              Reversed(donor_window))
    IN  Reversed(cumsum(<<0>> \o SubSeq(flipped, 1, Len(flipped) - 1)))

NoLengths == [HA_1 |-> 0, HA_2 |-> 0, donor_specific |-> 0]

\* Lengths with HA_2 counted from the crossover index itself
Lengths_from_index(last_index_in_HA_1, total_HA_length, donor) ==
    [HA_1 |-> last_index_in_HA_1 + 1,
     HA_2 |-> total_HA_length - last_index_in_HA_1,
     donor_specific |-> Len(donor) - total_HA_length]

\* the lengths dict
Lengths(last_index_in_HA_1, total_HA_length, donor) ==
    [HA_1 |-> last_index_in_HA_1 + 1,
     HA_2 |-> total_HA_length - (last_index_in_HA_1 + 1),
     donor_specific |-> Len(donor) - total_HA_length]

\* one iteration of the loop over possible_HA_boundaries: the info dict it
\* appends, or the failure or exception that ends the call
ResolveCandidate(b, donor, target, cut, rml) ==
    LET donor_window == Slice(b.possibly_flipped_donor_seq, b.HA_start, b.HA_end)
        donor_prefix == Slice(donor_window, 0, rml)
        donor_suffix == Tail_k(donor_window, rml)
        target_HA_start == rfind(target, donor_prefix, 0, cut + rml)
        target_HA_end == find(target, donor_suffix, cut - rml) + Len(donor_suffix)
        relevant_target_seq == Slice(target, target_HA_start, target_HA_end)
        total_HA_length == target_HA_end - target_HA_start
        total_mismatches ==
            ArrayAdd(mismatches_before_deletion(relevant_target_seq, donor_window),
                     mismatches_after_deletion(relevant_target_seq, donor_window))
        last_index_in_HA_1 == argmin(total_mismatches)
        base == [status |-> "failed",
                 failed |-> "cannot locate homology arms in target",
                 min_mismatches |-> 0,
                 possibly_flipped_donor_seq |-> b.possibly_flipped_donor_seq,
                 donor_HA_start |-> b.HA_start,
                 donor_HA_end |-> b.HA_end,
                 target_HA_start |-> target_HA_start,
                 target_HA_end |-> target_HA_end,
                 lengths |-> NoLengths,
                 total_mismatches |-> <<>>]
    IN  IF target_HA_start = -1 \/ target_HA_end = -1
           \/ target_HA_start >= target_HA_end
        THEN base
        ELSE IF total_mismatches = <<>>
        THEN [base EXCEPT !.status = "raised", !.failed = "ValueError"]
        ELSE [base EXCEPT
                !.status = "ok",
                !.failed = "",
                !.min_mismatches = total_mismatches[last_index_in_HA_1 + 1],
                !.lengths = Lengths(last_index_in_HA_1, total_HA_length, donor),
                !.total_mismatches = total_mismatches]

\* the loop over possible_HA_boundaries: the infos appended until the loop
\* ends or one iteration returns or raises
RECURSIVE ResolveFrom(_, _, _, _, _, _)
ResolveFrom(bs, k, donor, target, cut, rml) ==
    IF k > Len(bs) THEN <<>>
    ELSE LET info == ResolveCandidate(bs[k], donor, target, cut, rml)
         IN  IF info.status # "ok" THEN <<info>>
             ELSE <<info>> \o ResolveFrom(bs, k + 1, donor, target, cut, rml)

(* --------------------------- candidate ranking ------------------------- *)

\* priority without the arm lengths
priority_mismatches_only(info) == <<info.min_mismatches, 0>>

\* priority(info), and the order Python puts on the tuples
priority(info) ==
    <<info.min_mismatches, 0 - Min(info.lengths.HA_1, info.lengths.HA_2)>>

PriorityLess(x, y) == x[1] < y[1] \/ (x[1] = y[1] /\ x[2] < y[2])

\* min(possible_HAs, key=priority): the first element with the least key
RECURSIVE MinFrom(_, _, _)
MinFrom(infos, k, best) ==
    IF k > Len(infos) THEN infos[best]
    ELSE IF PriorityLess(priority(infos[k]), priority(infos[best]))
    THEN MinFrom(infos, k + 1, k)
    ELSE MinFrom(infos, k + 1, best)

best_HA(infos) == MinFrom(infos, 2, 1)

(* -------------------------- feature materializer ----------------------- *)

Feature(name, start, end) == [id |-> name, start |-> start, end |-> end]

\* donor_features with the adapters emitted whatever the donor type
donor_features_any_type(results, donor, donor_type) ==
    LET lengths == results.lengths
        HA_1_start == results.donor_HA_start
        HA_2_start == results.donor_HA_end - lengths.HA_2
        HA_1_end == HA_1_start + lengths.HA_1
        HA_2_end == HA_2_start + lengths.HA_2
    IN  <<Feature("HA_1", HA_1_start, HA_1_end),
          Feature("donor_specific", results.donor_HA_start + lengths.HA_1, HA_2_start),
          Feature("HA_2", HA_2_start, HA_2_end)>>
        \o (IF HA_1_start # 0
            THEN <<Feature("PCR_adapter_1", 0, HA_1_start)>> ELSE <<>>)
        \o (IF HA_2_end # Len(donor)
            THEN <<Feature("PCR_adapter_2", HA_2_end, Len(donor))>> ELSE <<>>)

\* donor_features with HA_2 placed right after HA_1, as the arms lie in the target
donor_features_abutting(results, donor, donor_type) ==
    LET lengths == results.lengths
        HA_1_start == results.donor_HA_start
        HA_2_start == results.donor_HA_start + lengths.HA_1
        HA_1_end == HA_1_start + lengths.HA_1
        HA_2_end == HA_2_start + lengths.HA_2
    IN  <<Feature("HA_1", HA_1_start, HA_1_end),
          Feature("donor_specific", results.donor_HA_start + lengths.HA_1, HA_2_start),
          Feature("HA_2", HA_2_start, HA_2_end)>>
        \o (IF donor_type = "PCR" /\ HA_1_start # 0
            THEN <<Feature("PCR_adapter_1", 0, HA_1_start)>> ELSE <<>>)
        \o (IF donor_type = "PCR" /\ HA_2_end # Len(donor)
            THEN <<Feature("PCR_adapter_2", HA_2_end, Len(donor))>> ELSE <<>>)

\* donor_starts / donor_ends in insertion order
donor_features(results, donor, donor_type) ==
    LET lengths == results.lengths
        HA_1_start == results.donor_HA_start
        HA_2_start == results.donor_HA_end - lengths.HA_2
        HA_1_end == HA_1_start + lengths.HA_1
        HA_2_end == HA_2_start + lengths.HA_2
    IN  <<Feature("HA_1", HA_1_start, HA_1_end),
          Feature("donor_specific", results.donor_HA_start + lengths.HA_1, HA_2_start),
          Feature("HA_2", HA_2_start, HA_2_end)>>
        \o (IF donor_type = "PCR" /\ HA_1_start # 0
            THEN <<Feature("PCR_adapter_1", 0, HA_1_start)>> ELSE <<>>)
        \o (IF donor_type = "PCR" /\ HA_2_end # Len(donor)
            THEN <<Feature("PCR_adapter_2", HA_2_end, Len(donor))>> ELSE <<>>)

\* target_features with HA_2 placed by the length of HA_1
target_features_by_HA_1(results) ==
    LET lengths == results.lengths
        HA_2_start == results.target_HA_end - lengths.HA_1
    IN  <<Feature("HA_1", results.target_HA_start,
                  results.target_HA_start + lengths.HA_1),
          Feature("HA_2", HA_2_start, HA_2_start + lengths.HA_2)>>

target_features(results) ==
    LET lengths == results.lengths
        HA_2_start == results.target_HA_end - lengths.HA_2
    IN  <<Feature("HA_1", results.target_HA_start,
                  results.target_HA_start + lengths.HA_1),
          Feature("HA_2", HA_2_start, HA_2_start + lengths.HA_2)>>

(* ------------------------------- state --------------------------------- *)

VARIABLES
    donor_seq,                \* arguments of the call
    donor_type,
    target_seq,
    cut_after,
    required_match_length,
    pc,                       \* "call", "resolve" or "done"
    alignments,               \* alignments[side]
    possible_HA_boundaries,
    possible_HAs,
    results,
    HA_info,                  \* what the call returned or raised
    perfect_als,              \* build_target_info: the genomic locations
    al_i,                     \* position of its loop over perfect_als
    good_candidates,
    bad_candidates,
    build,                    \* what build_target_info printed and wrote
    ti,                       \* a TargetInfo: its sequence and features
    memo,                     \* its memoized properties
    fns,                      \* the files it has written
    indel,                    \* a degenerate indel,
    details_string,           \* its str(),
    parsed                    \* and what degenerate_indel_from_string made of it

vars == <<donor_seq, donor_type, target_seq, cut_after, required_match_length,
          pc, alignments, possible_HA_boundaries, possible_HAs, results,
          HA_info, perfect_als, al_i, good_candidates, bad_candidates, build,
          ti, memo, fns, indel, details_string, parsed>>

args == <<donor_seq, donor_type, target_seq, cut_after, required_match_length>>

build_vars == <<perfect_als, al_i, good_candidates, bad_candidates, build>>

\* build_target_info before its loop over perfect_als; a printed line is
\* <<location, text>>, with location -1 when the line names none
NoBuild == [status |-> "running", printed |-> <<>>, written |-> <<>>,
            best_candidate |-> 0, sgRNA_features |-> <<>>]

NotBuilding ==
    /\ perfect_als = <<>>
    /\ al_i = 0
    /\ good_candidates = <<>>
    /\ bad_candidates = <<>>
    /\ build = NoBuild

ti_vars == <<ti, memo, fns, indel, details_string, parsed>>

\* no TargetInfo has been constructed, nothing computed, written or parsed
NoFeatures == <<>>
NoPrimers == <<>>
NoTarget == [target_sequence |-> <<>>, sgRNA_features |-> NoFeatures,
             primers_by_side_of_target |-> NoPrimers]
\* a memoized property that has not been read yet
Unset == [status |-> "unset", value |-> <<>>]
NoMemo == [PAM_slices |-> Unset, cut_afters |-> Unset,
           degenerate_indels |-> Unset]
\* the files of fns before identify_degenerate_indels opens them
NoFiles == [status |-> "unwritten", degenerate_deletions |-> <<>>,
            degenerate_insertions |-> <<>>]
None == [kind |-> "None"]

NoTargetInfo ==
    /\ ti = NoTarget
    /\ memo = NoMemo
    /\ fns = NoFiles
    /\ indel = None
    /\ details_string = <<>>
    /\ parsed = None

NoInfo == [status |-> "none", failed |-> "", min_mismatches |-> 0,
           possibly_flipped_donor_seq |-> <<>>,
           donor_HA_start |-> 0, donor_HA_end |-> 0,
           target_HA_start |-> 0, target_HA_end |-> 0,
           lengths |-> NoLengths, total_mismatches |-> <<>>]

Returned(status, reason, seq, dfs, tfs) ==
    [status |-> status, failed |-> reason, possibly_flipped_donor_seq |-> seq,
     donor_features |-> dfs, target_features |-> tfs]

NotReturned == Returned("none", "", <<>>, <<>>, <<>>)

Failure(reason) == Returned("failed", reason, <<>>, <<>>, <<>>)

Raised(exception) == Returned("raised", exception, <<>>, <<>>, <<>>)

\* the call from the loop over possible_HA_boundaries to its return
Outcome(bs, donor, dtype, target, cut, rml) ==
    LET infos == ResolveFrom(bs, 1, donor, target, cut, rml)
        n == Len(infos)
    IN  IF n > 0 /\ infos[n].status = "failed"
        THEN [possible_HAs |-> SubSeq(infos, 1, n - 1),
              results |-> [NoInfo EXCEPT !.status = "failed",
                                         !.failed = infos[n].failed],
              HA_info |-> Failure(infos[n].failed)]
        ELSE IF n > 0 /\ infos[n].status = "raised"
        THEN [possible_HAs |-> SubSeq(infos, 1, n - 1),
              results |-> NoInfo,
              HA_info |-> Raised(infos[n].failed)]
        ELSE IF n = 0
        \* results = {'failed': ...} has no key 'lengths'
        THEN [possible_HAs |-> <<>>,
              results |-> [NoInfo EXCEPT !.status = "failed",
                                         !.failed = "cannot locate homology arms"],
              HA_info |-> Raised("KeyError")]
        ELSE LET best == best_HA(infos)
             IN  [possible_HAs |-> infos,
                  results |-> best,
                  HA_info |-> Returned("ok", "", best.possibly_flipped_donor_seq,
                                       donor_features(best, donor, dtype),
                                       target_features(best))]

NoAlignments == [before_cut |-> <<>>, after_cut |-> <<>>]

Init ==
    /\ donor_seq \in DonorSeqs
    /\ donor_type \in DonorTypes
    /\ target_seq \in TargetSeqs
    /\ required_match_length \in MatchLengths
    \* the last cut that leaves the before_cut scan empty, a cut in the
    \* middle, and the first cut that leaves the after_cut scan empty
    /\ cut_after \in {required_match_length, Len(target_seq) \div 2,
                      Len(target_seq) - required_match_length}
    /\ pc = "call"
    /\ alignments = NoAlignments
    /\ possible_HA_boundaries = <<>>
    /\ possible_HAs = <<>>
    /\ results = NoInfo
    /\ HA_info = NotReturned
    /\ NotBuilding
    /\ NoTargetInfo

\* identify_homology_arms(donor_seq, donor_type, target_seq, cut_after,
\*                        required_match_length)
identify_homology_arms ==
    /\ pc = "call"
    /\ pc' = "done"
    /\ UNCHANGED args
    /\ UNCHANGED build_vars
    /\ UNCHANGED ti_vars
    /\ \E befores \in {ScanSide("before_cut", donor_seq, target_seq, cut_after,
                                 required_match_length)} :
       IF befores = <<>>
       THEN /\ alignments' = NoAlignments
            /\ HA_info' = Failure("cannot locate homology arm on before_cut")
            /\ results' = [NoInfo EXCEPT !.status = "failed",
                             !.failed = "cannot locate homology arm on before_cut"]
            /\ UNCHANGED <<possible_HA_boundaries, possible_HAs>>
       ELSE \E afters \in {ScanSide("after_cut", donor_seq, target_seq, cut_after,
                                     required_match_length)} :
            IF afters = <<>>
            THEN /\ alignments' = [before_cut |-> befores, after_cut |-> <<>>]
                 /\ HA_info' = Failure("cannot locate homology arm on after_cut")
                 /\ results' = [NoInfo EXCEPT !.status = "failed",
                                  !.failed = "cannot locate homology arm on after_cut"]
                 /\ UNCHANGED <<possible_HA_boundaries, possible_HAs>>
            ELSE \E bs \in {Boundaries(donor_seq, befores, afters)} :
                 \E out \in {Outcome(bs, donor_seq, donor_type, target_seq,
                                     cut_after, required_match_length)} :
                    /\ alignments' = [before_cut |-> befores, after_cut |-> afters]
                    /\ possible_HA_boundaries' = bs
                    /\ possible_HAs' = out.possible_HAs
                    /\ results' = out.results
                    /\ HA_info' = out.HA_info

Next == identify_homology_arms

Spec == Init /\ [][Next]_vars

(* ------------------- boundary resolution on its own -------------------- *)

\* The candidate windows the loop over possible_HA_boundaries can be handed:
\* windows of the donor long enough to hold two seeds and a base between
\* them. The alignments come from the seed-and-extend matcher of an external
\* library; here the windows are an input of the stage.
CandidateWindows(donor, rml) ==
    {[possibly_flipped_donor_seq |-> donor, HA_start |-> a, HA_end |-> a + n,
      before_al |-> NoAlignment, after_al |-> NoAlignment] :
        a \in 0..1, n \in (2 * rml + 1)..(2 * rml + 2)}

CandidateLists(donor, rml) ==
    LET W == {w \in CandidateWindows(donor, rml) : w.HA_end <= Len(donor)}
    IN  {<<w>> : w \in W}
        \cup {<<w[1], w[2]>> : w \in {p \in W \X W : p[1] # p[2]}}

InitBoundaries ==
    /\ donor_seq \in Seqs(MaxDonorLen - 1)
    /\ donor_type \in DonorTypes
    /\ target_seq \in Seqs(MaxTargetLen)
    /\ required_match_length \in MatchLengths
    /\ cut_after = Len(target_seq) \div 2
    /\ pc = "resolve"
    /\ alignments = NoAlignments
    /\ possible_HA_boundaries \in CandidateLists(donor_seq, required_match_length)
    /\ possible_HAs = <<>>
    /\ results = NoInfo
    /\ HA_info = NotReturned
    /\ NotBuilding
    /\ NoTargetInfo

\* identify_homology_arms from the loop over possible_HA_boundaries on
resolve_boundaries ==
    /\ pc = "resolve"
    /\ pc' = "done"
    /\ UNCHANGED <<args, alignments, possible_HA_boundaries>>
    /\ UNCHANGED build_vars
    /\ UNCHANGED ti_vars
    /\ \E out \in {Outcome(possible_HA_boundaries, donor_seq, donor_type,
                            target_seq, cut_after, required_match_length)} :
          /\ possible_HAs' = out.possible_HAs
          /\ results' = out.results
          /\ HA_info' = out.HA_info

NextBoundaries == resolve_boundaries

SpecBoundaries == InitBoundaries /\ [][NextBoundaries]_vars

(* --------------------------- the worked example ------------------------ *)

\* 60 nt targets in which no 8-mer occurs twice, on either strand
ExampleTargets ==
    {<<"C", "T", "C", "C", "A", "G", "C", "G", "C", "G", "G", "T", "C", "A", "G",
      "T", "T", "C", "C", "A", "T", "C", "A", "C", "C", "C", "T", "A", "A", "G",
      "T", "A", "A", "C", "C", "G", "A", "A", "T", "A", "A", "T", "G", "C", "G",
      "T", "T", "C", "G", "C", "T", "C", "T", "A", "T", "T", "G", "A", "C", "T">>,
     <<"T", "T", "T", "T", "G", "A", "C", "A", "T", "T", "T", "A", "A", "T", "T",
      "T", "C", "A", "C", "C", "C", "A", "T", "A", "A", "A", "C", "C", "A", "G",
      "C", "G", "T", "A", "A", "A", "G", "C", "T", "G", "C", "A", "A", "G", "T",
      "G", "G", "C", "T", "C", "C", "A", "T", "G", "A", "A", "C", "T", "T", "A">>}

ExampleInserts == [1..4 -> {"A", "C", "G", "T"}]

\* the 54 nt donor: target[0:25] + insert + target[35:60]
ExampleDonor(target, insert) ==
    Slice(target, 0, 25) \o insert \o Slice(target, 35, 60)

InitExample ==
    /\ target_seq \in ExampleTargets
    /\ donor_seq \in {ExampleDonor(target_seq, ins) : ins \in ExampleInserts}
    /\ donor_type \in DonorTypes
    /\ required_match_length = 15
    /\ cut_after = 30
    /\ pc = "call"
    /\ alignments = NoAlignments
    /\ possible_HA_boundaries = <<>>
    /\ possible_HAs = <<>>
    /\ results = NoInfo
    /\ HA_info = NotReturned
    /\ NotBuilding
    /\ NoTargetInfo

SpecExample == InitExample /\ [][Next]_vars

(* ------------------- calls with two windows on a side ------------------ *)

\* A target one base longer than the donor is short: with the cut at either
\* side of the middle, one side of the scan has two seed windows to try while
\* the other has one.
InitScan ==
    /\ donor_seq \in Seqs(MaxDonorLen - 2)
    /\ donor_type \in DonorTypes
    /\ target_seq \in Seqs(MaxTargetLen + 1)
    /\ required_match_length \in MatchLengths
    /\ cut_after \in {Len(target_seq) \div 2, Len(target_seq) \div 2 + 1}
    /\ pc = "call"
    /\ alignments = NoAlignments
    /\ possible_HA_boundaries = <<>>
    /\ possible_HAs = <<>>
    /\ results = NoInfo
    /\ HA_info = NotReturned
    /\ NotBuilding
    /\ NoTargetInfo

SpecScan == InitScan /\ [][Next]_vars

(* ---------------- calls with a target longer than the donor ------------ *)

\* A target three bases longer than the longest target of the other calls and
\* a donor one base shorter than its longest donor: the located target span
\* can be longer than the donor window, as when the donor replaces a stretch
\* of the target by a shorter one.
InitLong ==
    /\ donor_seq \in Seqs(MaxDonorLen - 1)
    /\ donor_type = "PCR"
    /\ target_seq \in Seqs(MaxTargetLen + 3)
    /\ required_match_length \in MatchLengths
    /\ cut_after \in {Len(target_seq) \div 2 - 1, Len(target_seq) \div 2}
    /\ pc = "call"
    /\ alignments = NoAlignments
    /\ possible_HA_boundaries = <<>>
    /\ possible_HAs = <<>>
    /\ results = NoInfo
    /\ HA_info = NotReturned
    /\ NotBuilding
    /\ NoTargetInfo

SpecLong == InitLong /\ [][Next]_vars

(* --------------------------- build_target_info ------------------------- *)

\* identify_homology_arms as a function of its arguments: what it returns or
\* raises
HA_call(donor, dtype, target, cut, rml) ==
    LET befores == ScanSide("before_cut", donor, target, cut, rml)
        afters == ScanSide("after_cut", donor, target, cut, rml)
    IN  IF befores = <<>>
        THEN Failure("cannot locate homology arm on before_cut")
        ELSE IF afters = <<>>
        THEN Failure("cannot locate homology arm on after_cut")
        ELSE Outcome(Boundaries(donor, befores, afters), donor, dtype, target,
                     cut, rml).HA_info

\* a perfect alignment of the protospacer: a genomic location, the target
\* sequence cut out around it, the cut site in it, and whether the checks of
\* evaluate_candidate that come before the homology arms (PAM, primers) pass
Location(genome, offset, primers_found) ==
    [location |-> offset,
     target_seq |-> Slice(genome, offset, offset + MaxTargetLen),
     cut_after |-> MaxTargetLen \div 2,
     primers_found |-> primers_found]

\* perfect_als in alignment order: one or two distinct locations of a genome
LocationLists ==
    LET G == Seqs(MaxTargetLen + 1)
    IN  {<<Location(g, o, f)>> : g \in G, o \in 0..1, f \in BOOLEAN}
        \cup {<<Location(c[1], c[2], c[3]), Location(c[1], 1 - c[2], c[4])>> :
                c \in G \X (0..1) \X BOOLEAN \X BOOLEAN}

InitBuild ==
    /\ donor_seq \in Seqs(MaxDonorLen - 1)
    /\ donor_type = "PCR"
    /\ target_seq = <<>>
    /\ required_match_length \in MatchLengths
    /\ cut_after = 0
    /\ pc = "build"
    /\ alignments = NoAlignments
    /\ possible_HA_boundaries = <<>>
    /\ possible_HAs = <<>>
    /\ results = NoInfo
    /\ HA_info = NotReturned
    /\ perfect_als \in LocationLists
    /\ al_i = 1
    /\ good_candidates = <<>>
    /\ bad_candidates = <<>>
    /\ build = NoBuild
    /\ NoTargetInfo

\* the results dict of evaluate_candidate
CandidateResults(al, reason, HA) ==
    [location |-> al.location, failed |-> reason,
     gb_records |-> [donor |-> [seq |-> HA.possibly_flipped_donor_seq,
                                features |-> HA.donor_features],
                     target |-> [seq |-> al.target_seq,
                                 features |-> HA.target_features]]]

\* one iteration of the loop "for al in perfect_als": evaluate_candidate(al)
\* and the append to good_candidates or bad_candidates; an exception of
\* identify_homology_arms leaves build_target_info
evaluate_candidate ==
    /\ pc = "build"
    /\ al_i <= Len(perfect_als)
    /\ UNCHANGED <<donor_seq, donor_type, required_match_length, alignments,
                   possible_HA_boundaries, possible_HAs, results, perfect_als>>
    /\ UNCHANGED ti_vars
    /\ \E al \in {perfect_als[al_i]} :
       /\ target_seq' = al.target_seq
       /\ cut_after' = al.cut_after
       /\ al_i' = al_i + 1
       /\ IF ~al.primers_found
          THEN /\ bad_candidates' =
                    Append(bad_candidates,
                           CandidateResults(al, "primer not present near protospacer",
                                            NotReturned))
               /\ HA_info' = NotReturned
               /\ UNCHANGED <<pc, good_candidates, build>>
          ELSE \E HA \in {HA_call(donor_seq, donor_type, al.target_seq,
                                   al.cut_after, required_match_length)} :
               /\ HA_info' = HA
               /\ IF HA.status = "raised"
                  THEN /\ pc' = "done"
                       /\ build' = [build EXCEPT !.status = HA.failed]
                       /\ UNCHANGED <<good_candidates, bad_candidates>>
                  ELSE IF HA.status = "failed"
                  THEN /\ bad_candidates' =
                            Append(bad_candidates,
                                   CandidateResults(al, HA.failed, HA))
                       /\ UNCHANGED <<pc, good_candidates, build>>
                  ELSE /\ good_candidates' =
                            Append(good_candidates, CandidateResults(al, "", HA))
                       /\ UNCHANGED <<pc, bad_candidates, build>>

\* build_target_info after the loop: the report of the failures, or the
\* choice of best_candidate and the writing of its GenBank records and of the
\* manifest
write_or_report ==
    /\ pc = "build"
    /\ al_i > Len(perfect_als)
    /\ pc' = "done"
    /\ UNCHANGED <<args, alignments, possible_HA_boundaries, possible_HAs,
                   results, HA_info, perfect_als, al_i, good_candidates,
                   bad_candidates>>
    /\ UNCHANGED ti_vars
    /\ IF Len(good_candidates) = 0
       THEN IF Len(bad_candidates) = 0
            THEN build' = [build EXCEPT
                             !.status = "failed",
                             !.printed = <<<<-1, "no perfect matches to sgRNA">>>>]
            ELSE build' = [build EXCEPT
                             !.status = "failed",
                             !.printed =
                                <<<<-1, "no valid genomic locations">>>>
                                \o [k \in 1..Len(bad_candidates) |->
                                      <<bad_candidates[k].location,
                                        bad_candidates[k].failed>>]]
       ELSE build' = [build EXCEPT
                        !.status = "written",
                        !.printed =
                           IF Len(good_candidates) > 1
                           THEN <<<<-1, "multiple valid genomic locations">>>>
                                \o [k \in 1..Len(good_candidates) |->
                                      <<good_candidates[k].location, "">>]
                                \o <<<<good_candidates[1].location,
                                       "Arbitrarily choosing">>>>
                           ELSE <<>>,
                        !.best_candidate = good_candidates[1].location,
                        !.written = <<good_candidates[1].gb_records, "manifest.yaml">>]

NextBuild == evaluate_candidate \/ write_or_report

SpecBuild == InitBuild /\ [][NextBuild]_vars

(* ------------- target_info.build_target_info.generate_records ---------- *)

\* the length of the donor's ends looked up in the target:
\* donor_seq[:20] and possibly_flipped_donor_seq[-20:]
DonorEndLength == 20

\* sub in s, and s.index(sub) where it is
Contains(s, sub) == \E i \in 0..(Len(s) - Len(sub)) : OccursAt(s, sub, i)

index(s, sub) == FindFrom(s, sub, 0)

NoRecords == [status |-> "none", possibly_flipped_donor_seq |-> <<>>,
              lengths |-> NoLengths]

\* the homology arm identification of generate_records: the orientation of
\* the donor and the lengths dict, status "none" where it returns None and
\* "raised" where np.argmin is handed an empty array
generate_records(donor, target) ==
    LET donor_prefix_0 == Slice(donor, 0, DonorEndLength)
        forward == Contains(target, donor_prefix_0)
        reverse == Contains(target, reverse_complement(donor_prefix_0))
        possibly_flipped == IF forward THEN donor ELSE reverse_complement(donor)
        donor_prefix == IF forward THEN donor_prefix_0
                        ELSE Slice(possibly_flipped, 0, DonorEndLength)
        donor_suffix == Tail_k(possibly_flipped, DonorEndLength)
        donor_start == index(target, donor_prefix)
        donor_end == index(target, donor_suffix) + Len(donor_suffix)
        relevant_target_seq == Slice(target, donor_start, donor_end)
        total_HA_length == donor_end - donor_start
        total_mismatches ==
            ArrayAdd(mismatches_before_deletion(relevant_target_seq, possibly_flipped),
                     mismatches_after_deletion(relevant_target_seq, possibly_flipped))
    IN  IF ~forward /\ ~reverse THEN NoRecords
        ELSE IF ~Contains(target, donor_prefix) \/ ~Contains(target, donor_suffix)
        THEN NoRecords
        ELSE IF total_mismatches = <<>>
        THEN [NoRecords EXCEPT !.status = "raised"]
        ELSE [status |-> "ok",
              possibly_flipped_donor_seq |-> possibly_flipped,
              lengths |-> Lengths(argmin(total_mismatches), total_HA_length, donor)]

(* -------------------- target_info: effectors and cuts ------------------ *)

\* the length of the protospacers and of the target sequences that carry them
GuideLength == 2
GuidedTargetLength == 6
GuidedBases == {"C", "G", "T"}

\* s[a:b] for any integers a and b
PySlice(s, a, b) ==
    SubSeq(s, NormIndex(a, Len(s)) + 1, NormIndex(b, Len(s)))

\* Effector.cut_after_offset is an int for some effectors and a tuple for
\* the others
IntOffset(n) == [type |-> "int", value |-> <<n>>]
TupleOffset(t) == [type |-> "tuple", value |-> t]

Effector(name, PAM_pattern, PAM_side, cut_after_offset) ==
    [name |-> name, PAM_pattern |-> PAM_pattern, PAM_side |-> PAM_side,
     cut_after_offset |-> cut_after_offset]

effectors ==
    [name \in {"SpCas9", "SaCas9", "Cpf1"} |->
        CASE name = "SpCas9" ->
                Effector("SpCas9", <<"N", "G", "G">>, 3, IntOffset(-4))
          [] name = "SaCas9" ->
                Effector("SaCas9", <<"N", "N", "G", "R", "R", "T">>, 3,
                         IntOffset(-4))
          [] name = "Cpf1" ->
                Effector("Cpf1", <<"T", "T", "T", "N">>, 5,
                         TupleOffset(<<22, 26>>))]

\* the bases an ambiguity code of a PAM pattern stands for
IUPAC(code) ==
    CASE code = "N" -> {"A", "C", "G", "T"}
      [] code = "R" -> {"A", "G"}
      [] OTHER -> {code}

\* 0 in matches, for pattern, *matches = Bio.SeqUtils.nt_search(seq, pattern)
nt_search_at_0(seq, pattern) ==
    /\ Len(seq) >= Len(pattern)
    /\ \A i \in 1..Len(pattern) : seq[i] \in IUPAC(pattern[i])

\* a SeqFeature of build_target_info: FeatureLocation(start, end, strand),
\* end exclusive, strand 1 or -1
SeqFeature(id, start, end, strand, effector) ==
    [id |-> id, location |-> [start |-> start, end |-> end, strand |-> strand],
     effector |-> effector]

convert_strand(strand) == IF strand = 1 THEN "+" ELSE "-"

\* the gff feature parse_benchling_genbank makes of a GenBank feature:
\* start and end inclusive, strand '+' or '-'
gff_feature(gb_feature) ==
    [ID |-> gb_feature.id,
     start |-> gb_feature.location.start,
     end |-> gb_feature.location.end - 1,
     strand |-> convert_strand(gb_feature.location.strand),
     attribute |-> [effector |-> gb_feature.effector]]

parse_benchling_genbank(gb_features) ==
    [k \in 1..Len(gb_features) |-> gff_feature(gb_features[k])]

\* TargetInfo.PAM_slices for one sgRNA: the slice, and whether the sequence
\* under it matches the PAM pattern of the effector
PAM_slice_of(target_sequence, sgRNA) ==
    LET effector == effectors[sgRNA.attribute.effector]
        n == Len(effector.PAM_pattern)
        before_slice == [start |-> sgRNA.start - n, stop |-> sgRNA.start]
        after_slice == [start |-> sgRNA.end + 1, stop |-> sgRNA.end + 1 + n]
        PAM_slice == IF \/ sgRNA.strand = "+" /\ effector.PAM_side = 5
                        \/ sgRNA.strand = "-" /\ effector.PAM_side = 3
                     THEN before_slice ELSE after_slice
        under == PySlice(target_sequence, PAM_slice.start, PAM_slice.stop)
        PAM_seq == IF sgRNA.strand = "-" THEN reverse_complement(under)
                   ELSE under
    IN  [name |-> sgRNA.ID, start |-> PAM_slice.start, stop |-> PAM_slice.stop,
         matches |-> nt_search_at_0(PAM_seq, effector.PAM_pattern)]

\* TargetInfo.PAM_slices: raises ValueError at the first sgRNA whose PAM does
\* not match
PAM_slices(t) ==
    LET slices == [k \in 1..Len(t.sgRNA_features) |->
                      PAM_slice_of(t.target_sequence, t.sgRNA_features[k])]
    IN  IF \A k \in 1..Len(slices) : slices[k].matches
        THEN [status |-> "ok", value |-> slices]
        ELSE [status |-> "ValueError", value |-> <<>>]

\* the offsets and key suffixes of an effector in TargetInfo.cut_afters
offsets_and_key_suffixes(effector) ==
    IF effector.cut_after_offset.type = "int"
    THEN <<[offset |-> effector.cut_after_offset.value[1], key_suffix |-> ""]>>
    ELSE [i \in 1..Len(effector.cut_after_offset.value) |->
            [offset |-> effector.cut_after_offset.value[i],
             key_suffix |-> "_" \o ToString(i - 1)]]

\* the entries TargetInfo.cut_afters adds for one sgRNA
cut_afters_of(sgRNA, PAM_slice) ==
    LET pairs == offsets_and_key_suffixes(effectors[sgRNA.attribute.effector])
    IN  [i \in 1..Len(pairs) |->
            [key |-> sgRNA.ID \o pairs[i].key_suffix,
             cut_after |-> IF sgRNA.strand = "+"
                           THEN PAM_slice.start + pairs[i].offset
                           ELSE (PAM_slice.stop - 1) - pairs[i].offset]]

RECURSIVE Concatenated(_)
Concatenated(lists) ==
    IF lists = <<>> THEN <<>> ELSE Head(lists) \o Concatenated(Tail(lists))

\* TargetInfo.cut_afters, given what self.PAM_slices returned or raised
cut_afters(t, slices) ==
    IF slices.status # "ok" THEN slices
    ELSE [status |-> "ok",
          value |-> Concatenated([k \in 1..Len(t.sgRNA_features) |->
                                    cut_afters_of(t.sgRNA_features[k],
                                                  slices.value[k])])]

\* build_target_info: the check of the PAM next to each protospacer
bad_PAM(target, sgRNA_feature) ==
    LET effector == effectors[sgRNA_feature.effector]
        ps_start == sgRNA_feature.location.start
        ps_len == sgRNA_feature.location.end - sgRNA_feature.location.start
        ps_strand == sgRNA_feature.location.strand
        n == Len(effector.PAM_pattern)
        forward == \/ ps_strand = 1 /\ effector.PAM_side = 3
                   \/ ps_strand = -1 /\ effector.PAM_side = 5
        PAM_start == ps_start + (IF forward THEN ps_len ELSE -n)
        under == PySlice(target, PAM_start, PAM_start + n)
        PAM == IF forward THEN under ELSE reverse_complement(under)
    IN  ~nt_search_at_0(PAM, effector.PAM_pattern)

\* build_target_info: cut_after_offset, the first offset of the effector
\* that is not None; iterating an int raises TypeError
first_cut_after_offset(effector) ==
    IF effector.cut_after_offset.type = "int"
    THEN [status |-> "TypeError", value |-> 0]
    ELSE [status |-> "ok", value |-> effector.cut_after_offset.value[1]]

\* build_target_info: the cut_after it passes to identify_homology_arms
cut_after_passed(sgRNA_feature, cut_after_offset) ==
    IF sgRNA_feature.location.strand = 1
    THEN sgRNA_feature.location.end + cut_after_offset
    ELSE sgRNA_feature.location.start - 1 - cut_after_offset - 1

Guides ==
    {SeqFeature("sgRNA", start, start + GuideLength, strand, effector) :
        start \in 0..(GuidedTargetLength - GuideLength),
        strand \in {1, -1},
        effector \in DOMAIN effectors}

\* a second SpCas9 guide on the reverse strand, next to a forward first one
GuideLists ==
    {<<g>> : g \in Guides}
    \cup {<<g, [h EXCEPT !.id = "nick"]>> :
            g \in {x \in Guides : x.effector = "SpCas9" /\ x.location.strand = 1},
            h \in {x \in Guides : x.effector = "SpCas9" /\ x.location.strand = -1}}

\* build_target_info has laid out the sgRNA features of a target and the
\* TargetInfo of that target has been constructed from the GenBank record
InitCut ==
    /\ donor_seq = <<>>
    /\ donor_type = "PCR"
    /\ target_seq \in [1..GuidedTargetLength -> GuidedBases]
    /\ required_match_length \in MatchLengths
    /\ cut_after = 0
    /\ pc = "sgRNA"
    /\ alignments = NoAlignments
    /\ possible_HA_boundaries = <<>>
    /\ possible_HAs = <<>>
    /\ results = NoInfo
    /\ HA_info = NotReturned
    /\ perfect_als = <<>>
    /\ al_i = 0
    /\ good_candidates = <<>>
    /\ bad_candidates = <<>>
    /\ \E gs \in GuideLists :
          /\ build = [NoBuild EXCEPT !.sgRNA_features = gs]
          /\ ti = [NoTarget EXCEPT !.target_sequence = target_seq,
                                   !.sgRNA_features = parse_benchling_genbank(gs)]
    /\ memo = NoMemo
    /\ fns = NoFiles
    /\ indel = None
    /\ details_string = <<>>
    /\ parsed = None

\* build_target_info from the check of the PAMs to the cut_after of the
\* first sgRNA
sgRNA_cut_after ==
    /\ pc = "sgRNA"
    /\ pc' = "done"
    /\ UNCHANGED <<donor_seq, donor_type, target_seq, required_match_length,
                   alignments, possible_HA_boundaries, possible_HAs, results,
                   HA_info, perfect_als, al_i, good_candidates, bad_candidates>>
    /\ UNCHANGED ti_vars
    /\ IF \E k \in 1..Len(build.sgRNA_features) :
             bad_PAM(target_seq, build.sgRNA_features[k])
       THEN /\ build' = [build EXCEPT !.status = "failed",
                                      !.printed = <<<<-1, "bad PAM">>>>]
            /\ UNCHANGED cut_after
       ELSE \E offset \in {first_cut_after_offset(
                              effectors[build.sgRNA_features[1].effector])} :
            IF offset.status # "ok"
            THEN /\ build' = [build EXCEPT !.status = offset.status]
                 /\ UNCHANGED cut_after
            ELSE /\ build' = [build EXCEPT !.status = "cut"]
                 /\ cut_after' = cut_after_passed(build.sgRNA_features[1],
                                                  offset.value)

\* the first read of TargetInfo.cut_afters
read_cut_afters ==
    /\ memo.cut_afters = Unset
    /\ ti.sgRNA_features # NoFeatures
    /\ \E slices \in {PAM_slices(ti)} :
          memo' = [memo EXCEPT !.PAM_slices = slices,
                               !.cut_afters = cut_afters(ti, slices)]
    /\ UNCHANGED <<args, pc, alignments, possible_HA_boundaries, possible_HAs,
                   results, HA_info>>
    /\ UNCHANGED build_vars
    /\ UNCHANGED <<ti, fns, indel, details_string, parsed>>

NextCut == sgRNA_cut_after \/ read_cut_afters

SpecCut == InitCut /\ [][NextCut]_vars

(* ------------------- degenerate indels and their strings --------------- *)

\* A Python str is the sequence of its characters.

\* the largest start position and length of the indels that are written out
\* and parsed back, two decimal digits long
MaxPosition == 11
StartCounts == {1, 2, 3}

ValueError == [kind |-> "ValueError"]

Digits == <<"0", "1", "2", "3", "4", "5", "6", "7", "8", "9">>

\* str(n) of an int
RECURSIVE str_int(_)
str_int(n) ==
    IF n < 0 THEN <<"-">> \o str_int(-n)
    ELSE IF n < 10 THEN <<Digits[n + 1]>>
    ELSE str_int(n \div 10) \o <<Digits[(n % 10) + 1]>>

IsDigit(c) == \E d \in 1..10 : Digits[d] = c
DigitValue(c) == (CHOOSE d \in 1..10 : Digits[d] = c) - 1

RECURSIVE DecimalValue(_)
DecimalValue(s) ==
    IF s = <<>> THEN 0
    ELSE 10 * DecimalValue(SubSeq(s, 1, Len(s) - 1)) + DigitValue(s[Len(s)])

\* int(s): ValueError unless s is decimal digits after an optional sign
int(s) ==
    LET digits == IF s # <<>> /\ s[1] = "-" THEN Tail(s) ELSE s
    IN  IF digits = <<>> \/ \E i \in 1..Len(digits) : ~IsDigit(digits[i])
        THEN [status |-> "ValueError", value |-> 0]
        ELSE [status |-> "ok",
              value |-> IF s[1] = "-" THEN -DecimalValue(digits)
                        ELSE DecimalValue(digits)]

\* sep.join(strings)
RECURSIVE join(_, _)
join(sep, strings) ==
    IF strings = <<>> THEN <<>>
    ELSE IF Len(strings) = 1 THEN strings[1]
    ELSE strings[1] \o sep \o join(sep, Tail(strings))

\* s.split(sep, maxsplit) for a one-character sep; maxsplit -1 for no limit
RECURSIVE split(_, _, _)
split(s, sep, maxsplit) ==
    IF maxsplit = 0 \/ \A i \in 1..Len(s) : s[i] # sep THEN <<s>>
    ELSE LET i == CHOOSE i \in 1..Len(s) :
                     s[i] = sep /\ \A j \in 1..(i - 1) : s[j] # sep
         IN  <<SubSeq(s, 1, i - 1)>>
             \o split(SubSeq(s, i + 1, Len(s)), sep,
                      IF maxsplit > 0 THEN maxsplit - 1 ELSE maxsplit)

\* s.lstrip(chars)
RECURSIVE lstrip(_, _)
lstrip(s, chars) ==
    IF s # <<>> /\ s[1] \in chars THEN lstrip(Tail(s), chars) ELSE s

\* strip that leaves the end of the string alone
strip_leading(s, chars) == lstrip(s, chars)

\* s.strip(chars)
strip(s, chars) == Reversed(lstrip(Reversed(lstrip(s, chars)), chars))

Braces == {"{", "}"}

\* DegenerateDeletion.__init__ (num_MH_nts and ends_ats are functions of
\* the two fields kept here)
DegenerateDeletion(starts_ats, length) ==
    [kind |-> "D", starts_ats |-> starts_ats, length |-> length]

\* DegenerateInsertion.__init__: ValueError when the seqs differ in length
\* (set.pop of no length at all raises KeyError)
DegenerateInsertion(starts_afters, seqs) ==
    LET lengths == {Len(seqs[i]) : i \in 1..Len(seqs)}
    IN  IF Cardinality(lengths) > 1 THEN ValueError
        ELSE IF lengths = {} THEN [kind |-> "KeyError"]
        ELSE [kind |-> "I", starts_afters |-> starts_afters, seqs |-> seqs]

\* DegenerateDeletion.__str__
DegenerateDeletion_str(d) ==
    LET joined == join(<<"|">>, [i \in 1..Len(d.starts_ats) |->
                                   str_int(d.starts_ats[i])])
        starts_string == IF Len(d.starts_ats) > 1
                         THEN <<"{">> \o joined \o <<"}">> ELSE joined
    IN  <<"D", ":">> \o starts_string \o <<",">> \o str_int(d.length)

\* DegenerateInsertion.__str__
DegenerateInsertion_str(d) ==
    LET joined_starts == join(<<"|">>, [i \in 1..Len(d.starts_afters) |->
                                          str_int(d.starts_afters[i])])
        joined_seqs == join(<<"|">>, d.seqs)
        many == Len(d.starts_afters) > 1
        starts_string == IF many THEN <<"{">> \o joined_starts \o <<"}">>
                         ELSE joined_starts
        seqs_string == IF many THEN <<"{">> \o joined_seqs \o <<"}">>
                       ELSE joined_seqs
    IN  <<"I", ":">> \o starts_string \o <<",">> \o seqs_string

str(d) ==
    IF d.kind = "D" THEN DegenerateDeletion_str(d) ELSE DegenerateInsertion_str(d)

\* [int(s) for s in strings]
ints(strings) ==
    LET parsed_ints == [i \in 1..Len(strings) |-> int(strings[i])]
    IN  IF \E i \in 1..Len(strings) : parsed_ints[i].status # "ok"
        THEN [status |-> "ValueError", value |-> <<>>]
        ELSE [status |-> "ok",
              value |-> [i \in 1..Len(strings) |-> parsed_ints[i].value]]

\* DegenerateDeletion.from_string
DegenerateDeletion_from_string(string) ==
    LET kind_rest == split(string, ":", 1)
    IN  IF Len(kind_rest) # 2 THEN ValueError
        ELSE LET fields == split(kind_rest[2], ",", -1)
             IN  IF Len(fields) # 2 THEN ValueError
                 ELSE LET starts_ats == ints(split(strip(fields[1], Braces),
                                                   "|", -1))
                          length == int(fields[2])
                      IN  IF starts_ats.status # "ok" \/ length.status # "ok"
                          THEN ValueError
                          ELSE DegenerateDeletion(starts_ats.value, length.value)

\* DegenerateInsertion.from_string
DegenerateInsertion_from_string(string) ==
    LET kind_rest == split(string, ":", 1)
    IN  IF Len(kind_rest) # 2 THEN ValueError
        ELSE LET fields == split(kind_rest[2], ",", -1)
             IN  IF Len(fields) # 2 THEN ValueError
                 ELSE LET starts_afters == ints(split(strip(fields[1], Braces),
                                                      "|", -1))
                          seqs == split(strip(fields[2], Braces), "|", -1)
                      IN  IF starts_afters.status # "ok" THEN ValueError
                          ELSE DegenerateInsertion(starts_afters.value, seqs)

degenerate_indel_from_string(string) ==
    LET kind_rest == split(string, ":", -1)
    IN  IF Len(kind_rest) # 2 THEN ValueError
        ELSE IF kind_rest[1] = <<"D">>
        THEN DegenerateDeletion_from_string(string)
        ELSE IF kind_rest[1] = <<"I">>
        THEN DegenerateInsertion_from_string(string)
        ELSE None

\* __eq__ of the two classes; an operand of the other class has no such
\* attributes
eq(self, other) ==
    /\ self.kind = other.kind
    /\ IF self.kind = "D"
       THEN self.starts_ats = other.starts_ats /\ self.length = other.length
       ELSE self.starts_afters = other.starts_afters /\ self.seqs = other.seqs

\* what __hash__ hashes
hashed(self) ==
    IF self.kind = "D" THEN <<self.starts_ats, self.length>>
    ELSE <<self.starts_afters, self.seqs>>

Positions == {0} \cup (MaxPosition - 2)..MaxPosition

Tuples(S) == UNION {[1..n -> S] : n \in StartCounts}

InsertedSeqs == Seqs(1) \cup Seqs(2)

Indels ==
    {DegenerateDeletion(starts_ats, length) :
        starts_ats \in Tuples(Positions), length \in Positions \ {0}}
    \cup {DegenerateInsertion(starts_afters, seqs) :
            starts_afters \in Tuples(Positions), seqs \in Tuples(InsertedSeqs)}

\* an indel that is about to be written out and parsed back
InitStrings ==
    /\ donor_seq = <<>>
    /\ donor_type = "PCR"
    /\ target_seq = <<>>
    /\ required_match_length \in MatchLengths
    /\ cut_after = 0
    /\ pc = "str"
    /\ alignments = NoAlignments
    /\ possible_HA_boundaries = <<>>
    /\ possible_HAs = <<>>
    /\ results = NoInfo
    /\ HA_info = NotReturned
    /\ NotBuilding
    /\ ti = NoTarget
    /\ memo = NoMemo
    /\ fns = NoFiles
    /\ indel \in {d \in Indels : d.kind \in {"D", "I"}}
    /\ details_string = <<>>
    /\ parsed = None

\* details_string = str(indel)
format_indel ==
    /\ pc = "str"
    /\ pc' = "parse"
    /\ details_string' = str(indel)
    /\ UNCHANGED <<args, alignments, possible_HA_boundaries, possible_HAs,
                   results, HA_info>>
    /\ UNCHANGED build_vars
    /\ UNCHANGED <<ti, memo, fns, indel, parsed>>

\* parsed = degenerate_indel_from_string(details_string)
parse_indel ==
    /\ pc = "parse"
    /\ pc' = "parsed"
    /\ parsed' = degenerate_indel_from_string(details_string)
    /\ UNCHANGED <<args, alignments, possible_HA_boundaries, possible_HAs,
                   results, HA_info>>
    /\ UNCHANGED build_vars
    /\ UNCHANGED <<ti, memo, fns, indel, details_string>>

NextStrings == format_indel \/ parse_indel

SpecStrings == InitStrings /\ [][NextStrings]_vars

(* ---------------------- identify_degenerate_indels --------------------- *)

\* range(1, 200), the lengths of the deletions, and range(1, 5), the lengths
\* of the inserted mers
DeletionLengthStop == 200
MerLengthStop == 5

\* range(primers_by_side_of_target[5].start, primers_by_side_of_target[3].end)
possible_starts(t) ==
    LET first == t.primers_by_side_of_target[5].start
        stop == t.primers_by_side_of_target[3].end
    IN  [i \in 1..(stop - first) |-> first + i - 1]

\* before + after of a deletion of length bases at starts_at
deletion_result_from_next_base(target_sequence, starts_at, length) ==
    Slice(target_sequence, 0, starts_at)
    \o SubSeq(target_sequence, starts_at + 2, Len(target_sequence))

deletion_result(target_sequence, starts_at, length) ==
    Slice(target_sequence, 0, starts_at)
    \o SubSeq(target_sequence, starts_at + length + 1, Len(target_sequence))

\* before + mer + after of an insertion of mer after starts_after
insertion_result(target_sequence, starts_after, mer) ==
    Slice(target_sequence, 0, starts_after + 1) \o mer
    \o SubSeq(target_sequence, starts_after + 2, Len(target_sequence))

\* the deletions of the first loop with their results, in the order made
made_deletions(t) ==
    LET starts == possible_starts(t)
        n == Len(t.target_sequence)
    IN  Concatenated(
            [i \in 1..Len(starts) |->
                [length \in 1..Min(DeletionLengthStop - 1, n - starts[i] - 1) |->
                    [result |-> deletion_result(t.target_sequence, starts[i],
                                                length),
                     indel |-> DegenerateDeletion(<<starts[i]>>, length)]]])

\* utilities.mers(length), in order
RECURSIVE mers(_)
mers(length) ==
    IF length = 0 THEN <<<<>>>>
    ELSE LET shorter == mers(length - 1)
             bases == <<"A", "T">>
         IN  Concatenated([i \in 1..Len(shorter) |->
                             [b \in 1..Len(bases) |-> shorter[i] \o <<bases[b]>>]])

\* the insertions of the second loop with their results, in the order made
made_insertions(t) ==
    LET starts == possible_starts(t)
        all_mers == Concatenated([length \in 1..(MerLengthStop - 1) |->
                                    mers(length)])
    IN  Concatenated(
            [i \in 1..Len(starts) |->
                [m \in 1..Len(all_mers) |->
                    [result |-> insertion_result(t.target_sequence, starts[i],
                                                 all_mers[m]),
                     indel |-> DegenerateInsertion(<<starts[i]>>,
                                                   <<all_mers[m]>>)]]])

\* the values of the defaultdict(list) keyed by result, in insertion order:
\* one list for each result, placed where the result was first made
degenerate_classes(made) ==
    LET firsts == SelectSeq([i \in 1..Len(made) |-> i],
                            LAMBDA i : \A j \in 1..(i - 1) :
                                          made[j].result # made[i].result)
    IN  [k \in 1..Len(firsts) |->
            LET same == SelectSeq(made, LAMBDA m :
                                     m.result = made[firsts[k]].result)
            IN  [i \in 1..Len(same) |-> same[i].indel]]

\* sorted(classes, key=len, reverse=True), which keeps the order of classes
\* of the same size; n is the size of the largest class still to be placed
RECURSIVE sorted_by_len_reversed(_, _)
sorted_by_len_reversed(classes, n) ==
    IF n = 0 THEN <<>>
    ELSE SelectSeq(classes, LAMBDA c : Len(c) = n)
         \o sorted_by_len_reversed(classes, n - 1)

\* sorted(S) of a set of ints
RECURSIVE sorted_ints(_)
sorted_ints(S) ==
    IF S = {} THEN <<>>
    ELSE LET least == CHOOSE x \in S : \A y \in S : x <= y
         IN  <<least>> \o sorted_ints(S \ {least})

\* DegenerateDeletion.collapse that keeps the first of the starts only
DegenerateDeletion_collapse_first(degenerate_deletions) ==
    DegenerateDeletion(<<degenerate_deletions[1].starts_ats[1]>>,
                       degenerate_deletions[1].length)

\* DegenerateDeletion.collapse
DegenerateDeletion_collapse(degenerate_deletions) ==
    LET ds == degenerate_deletions
        lengths == {ds[i].length : i \in 1..Len(ds)}
        starts_ats == UNION {{ds[i].starts_ats[k] : k \in 1..Len(ds[i].starts_ats)} :
                             i \in 1..Len(ds)}
    IN  IF Cardinality(lengths) > 1 THEN ValueError
        ELSE DegenerateDeletion(sorted_ints(starts_ats),
                                CHOOSE length \in lengths : TRUE)

\* the order of Python's str on the bases
BaseRank(b) == CHOOSE r \in 1..4 : <<"A", "C", "G", "T">>[r] = b

RECURSIVE str_less(_, _)
str_less(a, b) ==
    IF b = <<>> THEN FALSE
    ELSE IF a = <<>> THEN TRUE
    ELSE IF a[1] # b[1] THEN BaseRank(a[1]) < BaseRank(b[1])
    ELSE str_less(Tail(a), Tail(b))

\* the order of Python's tuples on (starts_after, seq) pairs
pair_less(p, q) == p[1] < q[1] \/ (p[1] = q[1] /\ str_less(p[2], q[2]))

\* DegenerateInsertion.collapse: from_pairs of the sorted pairs of all
DegenerateInsertion_collapse(degenerate_insertions) ==
    LET ds == degenerate_insertions
        \* zip(self.starts_afters, self.seqs)
        pairs(d) == [i \in 1..Min(Len(d.starts_afters), Len(d.seqs)) |->
                        <<d.starts_afters[i], d.seqs[i]>>]
        all_pairs == SortSeq(Concatenated([i \in 1..Len(ds) |-> pairs(ds[i])]),
                             pair_less)
    IN  DegenerateInsertion([i \in 1..Len(all_pairs) |-> all_pairs[i][1]],
                            [i \in 1..Len(all_pairs) |-> all_pairs[i][2]])

\* the lines one of the two with blocks writes: the string of each collapsed
\* class of more than one indel, up to the first collapse that raises
written_lines(made) ==
    LET collapse(class) == IF class[1].kind = "D"
                           THEN DegenerateDeletion_collapse(class)
                           ELSE DegenerateInsertion_collapse(class)
        classes == degenerate_classes(made)
        largest == IF classes = <<>> THEN 0
                   ELSE CHOOSE n \in {Len(classes[i]) : i \in 1..Len(classes)} :
                           \A i \in 1..Len(classes) : Len(classes[i]) <= n
        sorted == sorted_by_len_reversed(classes, largest)
        collapsed == [i \in 1..Len(sorted) |->
                         IF Len(sorted[i]) > 1 THEN collapse(sorted[i])
                         ELSE None]
        raising == {i \in 1..Len(collapsed) :
                       collapsed[i].kind \in {"ValueError", "KeyError"}}
        stop == IF raising = {} THEN Len(collapsed) + 1
                ELSE CHOOSE i \in raising : \A j \in raising : i <= j
        kept == SelectSeq(SubSeq(collapsed, 1, stop - 1),
                          LAMBDA c : c.kind # "None")
    IN  [status |-> IF raising = {} THEN "written" ELSE collapsed[stop].kind,
         lines |-> [i \in 1..Len(kept) |-> str(kept[i])]]

\* TargetInfo.identify_degenerate_indels: the files it leaves behind
identify_degenerate_indels(t) ==
    LET deletions == written_lines(made_deletions(t))
    IN  IF deletions.status # "written"
        THEN [status |-> deletions.status,
              degenerate_deletions |-> deletions.lines,
              degenerate_insertions |-> <<>>]
        ELSE LET insertions == written_lines(made_insertions(t))
             IN  [status |-> insertions.status,
                  degenerate_deletions |-> deletions.lines,
                  degenerate_insertions |-> insertions.lines]

\* singletons() of the two classes
singletons(d) ==
    IF d.kind = "D"
    THEN [i \in 1..Len(d.starts_ats) |->
            DegenerateDeletion(<<d.starts_ats[i]>>, d.length)]
    ELSE [i \in 1..Min(Len(d.starts_afters), Len(d.seqs)) |->
            DegenerateInsertion(<<d.starts_afters[i]>>, <<d.seqs[i]>>)]

\* TargetInfo.degenerate_indels: the (singleton, full) items assigned to
\* singleton_to_full, in order
degenerate_indels(files) ==
    LET lines == files.degenerate_deletions \o files.degenerate_insertions
    IN  Concatenated([i \in 1..Len(lines) |->
            LET full == degenerate_indel_from_string(lines[i])
                singles == singletons(full)
            IN  [k \in 1..Len(singles) |->
                    [singleton |-> singles[k], full |-> full]]])

\* TargetInfo.expand_degenerate_indel: singleton_to_full.get(indel, indel),
\* the item assigned last under a key being the one the dict holds
expand_degenerate_indel(singleton_to_full, d) ==
    LET found == {i \in 1..Len(singleton_to_full) :
                     eq(singleton_to_full[i].singleton, d)}
    IN  IF found = {} THEN d
        ELSE singleton_to_full[CHOOSE i \in found : \A j \in found : j <= i].full

\* the primers of the amplicon, each one base long
Primers ==
    {[side \in {5, 3} |-> IF side = 5 THEN [start |-> first, end |-> first]
                          ELSE [start |-> last, end |-> last]] :
        first \in 0..(MaxTargetLen - 2), last \in 0..(MaxTargetLen - 2)}

\* a TargetInfo whose amplicon lies within a target sequence
InitIndels ==
    /\ donor_seq = <<>>
    /\ donor_type = "PCR"
    /\ target_seq \in Seqs(MaxTargetLen - 1)
    /\ required_match_length \in MatchLengths
    /\ cut_after = 0
    /\ pc = "identify"
    /\ alignments = NoAlignments
    /\ possible_HA_boundaries = <<>>
    /\ possible_HAs = <<>>
    /\ results = NoInfo
    /\ HA_info = NotReturned
    /\ NotBuilding
    /\ \E primers \in {p \in Primers : p[5].start <= p[3].start} :
          ti = [NoTarget EXCEPT !.target_sequence = target_seq,
                                !.primers_by_side_of_target = primers]
    /\ memo = NoMemo
    /\ fns = NoFiles
    /\ indel = None
    /\ details_string = <<>>
    /\ parsed = None

\* ti.identify_degenerate_indels()
write_degenerate_indels ==
    /\ pc = "identify"
    /\ pc' = "identified"
    /\ fns' = identify_degenerate_indels(ti)
    /\ UNCHANGED <<args, alignments, possible_HA_boundaries, possible_HAs,
                   results, HA_info>>
    /\ UNCHANGED build_vars
    /\ UNCHANGED <<ti, memo, indel, details_string, parsed>>

\* the first read of ti.degenerate_indels, once the files are there
read_degenerate_indels ==
    /\ pc = "identified"
    /\ fns.status = "written"
    /\ pc' = "expand"
    /\ memo' = [memo EXCEPT !.degenerate_indels =
                   [status |-> "ok", value |-> degenerate_indels(fns)]]
    /\ UNCHANGED <<args, alignments, possible_HA_boundaries, possible_HAs,
                   results, HA_info>>
    /\ UNCHANGED build_vars
    /\ UNCHANGED <<ti, fns, indel, details_string, parsed>>

NextIndels == write_degenerate_indels \/ read_degenerate_indels

SpecIndels == InitIndels /\ [][NextIndels]_vars

(* ============================== claims ================================= *)

Done == pc = "done"

Succeeded == Done /\ HA_info.status = "ok"

\* the donor window and the target span of a resolved candidate
WindowOf(info) ==
    Slice(info.possibly_flipped_donor_seq, info.donor_HA_start, info.donor_HA_end)

SpanOf(info) == Slice(target_seq, info.target_HA_start, info.target_HA_end)

RECURSIVE SumOf(_)
SumOf(s) == IF s = <<>> THEN 0 ELSE s[1] + SumOf(Tail(s))

\* total length of the PCR adapter features of the returned donor features
AdapterLength ==
    LET fs == SelectSeq(HA_info.donor_features,
                        LAMBDA f : f.id \in {"PCR_adapter_1", "PCR_adapter_2"})
    IN  SumOf([k \in 1..Len(fs) |-> fs[k].end - fs[k].start])

\* C1: in every successful result, lengths.HA_1 + lengths.donor_specific +
\* lengths.HA_2 plus the lengths of the emitted PCR adapter features equals
\* len(donor_seq).
C1_LengthConservation ==
    Succeeded =>
        results.lengths.HA_1 + results.lengths.donor_specific
          + results.lengths.HA_2 + AdapterLength = Len(donor_seq)

\* C2: when alignments were found on both sides of the cut and no pair of
\* them gives a candidate, the call returns the failure 'cannot locate
\* homology arms' and does not raise.
C2_NoCandidatesIsTaggedFailure ==
    (/\ Done
     /\ alignments.before_cut # <<>>
     /\ alignments.after_cut # <<>>
     /\ possible_HA_boundaries = <<>>)
        => HA_info = Failure("cannot locate homology arms")

\* whether the window's prefix occurs within target_seq[0 : cut_after +
\* required_match_length], and its suffix at or after cut_after -
\* required_match_length
PrefixFound(b) ==
    LET w == Slice(b.possibly_flipped_donor_seq, b.HA_start, b.HA_end)
        prefix == Slice(w, 0, required_match_length)
    IN  \E i \in 0..Len(target_seq) :
            /\ OccursAt(target_seq, prefix, i)
            /\ i + Len(prefix) <= cut_after + required_match_length

SuffixFound(b) ==
    LET w == Slice(b.possibly_flipped_donor_seq, b.HA_start, b.HA_end)
        suffix == Tail_k(w, required_match_length)
    IN  \E i \in 0..Len(target_seq) :
            /\ OccursAt(target_seq, suffix, i)
            /\ i >= cut_after - required_match_length

ScanRange(side) ==
    IF side = "before_cut"
    THEN {s \in 1..Len(target_seq) : s <= cut_after - required_match_length}
    ELSE {s \in 0..Len(target_seq) :
            s >= cut_after /\ s < Len(target_seq) - required_match_length}

NoHit(side) ==
    \A s \in ScanRange(side) :
        seed_and_extend(donor_seq, target_seq, s, s + required_match_length) = <<>>

\* C4: if no seed window of the before_cut range has an alignment the call
\* returns 'cannot locate homology arm on before_cut'; otherwise, if none of
\* the after_cut range has one, 'cannot locate homology arm on after_cut';
\* an empty range counts as having none, and the call does not raise.
C4_ScanFailureNamesSide ==
    Done =>
        /\ NoHit("before_cut")
             => HA_info = Failure("cannot locate homology arm on before_cut")
        /\ (~NoHit("before_cut") /\ NoHit("after_cut"))
             => HA_info = Failure("cannot locate homology arm on after_cut")

\* the after_cut scan had windows to try, none of them hit, and the before_cut
\* scan had found an alignment
C4_Witness ==
    /\ Done
    /\ ScanRange("after_cut") # {}
    /\ NoHit("after_cut")
    /\ alignments.before_cut # <<>>
    /\ HA_info = Failure("cannot locate homology arm on after_cut")

\* the number of disagreements a crossover after index i leaves: positions
\* 0..i of the two sequences compared from their left ends, and the
\* positions strictly after i compared from their right ends
NaiveTotal(info, i) ==
    LET t == SpanOf(info)
        d == WindowOf(info)
        n == Min(Len(t), Len(d))
    IN  Cardinality({p \in 0..Min(i, n - 1) : t[p + 1] # d[p + 1]})
        + Cardinality({k \in 1..(n - 1 - i) :
                          t[Len(t) + 1 - k] # d[Len(d) + 1 - k]})

CrossoverOf(info) == info.lengths.HA_1 - 1

TotalLength(info) == info.target_HA_end - info.target_HA_start

\* C5: the chosen crossover index of every resolved candidate has the least
\* total mismatch count among the indices in [0, total_HA_length).
C5_CrossoverMinimal ==
    Done =>
        \A k \in 1..Len(possible_HAs) :
            LET info == possible_HAs[k]
            IN  \A i \in 0..(TotalLength(info) - 1) :
                    NaiveTotal(info, CrossoverOf(info)) <= NaiveTotal(info, i)

\* a resolved candidate whose chosen crossover is not index 0 and beats it
C5_Witness ==
    /\ Succeeded
    /\ CrossoverOf(results) > 0
    /\ NaiveTotal(results, CrossoverOf(results)) < NaiveTotal(results, 0)

\* C6: among the indices with the least total mismatch count the lowest is
\* chosen: lengths.HA_1 is that index plus one and lengths.HA_2 is
\* total_HA_length - lengths.HA_1.
C6_LowestMinimumChosen ==
    Done =>
        \A k \in 1..Len(possible_HAs) :
            LET info == possible_HAs[k]
            IN  /\ \A i \in 0..(CrossoverOf(info) - 1) :
                        NaiveTotal(info, i) > NaiveTotal(info, CrossoverOf(info))
                /\ info.lengths.HA_2 = TotalLength(info) - info.lengths.HA_1

\* a resolved candidate in which a later index ties with the chosen one
C6_Witness ==
    /\ Succeeded
    /\ \E i \in (CrossoverOf(results) + 1)..(Len(results.total_mismatches) - 1) :
            NaiveTotal(results, i) = NaiveTotal(results, CrossoverOf(results))

\* priority keys compared as tuples
KeyOf(info) ==
    <<info.min_mismatches,
      IF info.lengths.HA_1 <= info.lengths.HA_2
      THEN 0 - info.lengths.HA_1 ELSE 0 - info.lengths.HA_2>>

KeyBelow(x, y) == x[1] < y[1] \/ (x[1] = y[1] /\ x[2] < y[2])

\* C7: the returned candidate has the least key (min_mismatches,
\* -min(lengths.HA_1, lengths.HA_2)) of all candidates, and is the first
\* candidate in generation order that has it.
C7_BestCandidateReturned ==
    Succeeded =>
        \E k \in 1..Len(possible_HAs) :
            /\ results = possible_HAs[k]
            /\ \A j \in 1..Len(possible_HAs) :
                    ~KeyBelow(KeyOf(possible_HAs[j]), KeyOf(possible_HAs[k]))
            /\ \A j \in 1..(k - 1) :
                    KeyBelow(KeyOf(possible_HAs[k]), KeyOf(possible_HAs[j]))

\* a later candidate has as few mismatches as the first one and wins on the
\* second component of the key
C7_Witness ==
    /\ Succeeded
    /\ Len(possible_HAs) >= 2
    /\ results # possible_HAs[1]
    /\ results.min_mismatches = possible_HAs[1].min_mismatches

\* C8: a candidate of a '-' strand pair carries the reverse complement of
\* the donor and the window start' = L - 1 - (before.reference_end - 1),
\* end' = L - 1 - after.reference_start + 1, which spells in the flipped donor
\* the reverse complement of donor[after.reference_start :
\* before.reference_end]; a candidate of a '+' strand pair carries the donor
\* unchanged and the window [before.reference_start, after.reference_end);
\* a successful call returns the sequence and window of one of its candidates.
C8_StrandHandling ==
    Done =>
        /\ \A k \in 1..Len(possible_HA_boundaries) :
            LET b == possible_HA_boundaries[k]
                L == Len(donor_seq)
                window == Slice(b.possibly_flipped_donor_seq, b.HA_start, b.HA_end)
                covered == Slice(donor_seq, b.after_al.reference_start,
                                 b.before_al.reference_end)
            IN  IF b.before_al.strand = "-"
                THEN /\ Len(b.possibly_flipped_donor_seq) = L
                     /\ \A i \in 1..L :
                            b.possibly_flipped_donor_seq[i]
                              = Complement(donor_seq[L + 1 - i])
                     /\ b.HA_start = L - 1 - (b.before_al.reference_end - 1)
                     /\ b.HA_end = L - 1 - b.after_al.reference_start + 1
                     /\ Len(window) = Len(covered)
                     /\ \A i \in 1..Len(window) :
                            window[i] = Complement(covered[Len(covered) + 1 - i])
                ELSE /\ b.possibly_flipped_donor_seq = donor_seq
                     /\ b.HA_start = b.before_al.reference_start
                     /\ b.HA_end = b.after_al.reference_end
        /\ Succeeded =>
            \E k \in 1..Len(possible_HA_boundaries) :
                LET b == possible_HA_boundaries[k]
                IN  /\ HA_info.possibly_flipped_donor_seq = b.possibly_flipped_donor_seq
                    /\ results.donor_HA_start = b.HA_start
                    /\ results.donor_HA_end = b.HA_end
                    /\ HA_info.donor_features[1].start = b.HA_start
                    /\ HA_info.donor_features[3].end = b.HA_end

\* a successful call whose winning candidate comes from a '-' strand pair of
\* a donor that is not its own reverse complement
C8_Witness ==
    /\ Succeeded
    /\ HA_info.possibly_flipped_donor_seq # donor_seq
    /\ \E k \in 1..Len(possible_HA_boundaries) :
            /\ possible_HA_boundaries[k].before_al.strand = "-"
            /\ possible_HA_boundaries[k].HA_start = results.donor_HA_start
            /\ possible_HA_boundaries[k].HA_end = results.donor_HA_end
            /\ possible_HA_boundaries[k].HA_start > 0

\* C9: for a 60 nt target without repeated 8-mers, cut_after = 30 and the
\* 54 nt donor target[0:25] + insert + target[35:60], the call succeeds with
\* lengths.donor_specific = 4, min_mismatches = 0, lengths.HA_1 and
\* lengths.HA_2 within a few bases of 25, and a target span of 50.
C9_WorkedExample ==
    Done =>
        /\ HA_info.status = "ok"
        /\ results.lengths.donor_specific = 4
        /\ results.min_mismatches = 0
        /\ results.lengths.HA_1 \in 21..29
        /\ results.lengths.HA_2 \in 21..29
        /\ results.target_HA_end - results.target_HA_start = 50

\* C10: for every resolved candidate target_HA_end - target_HA_start =
\* lengths.HA_1 + lengths.HA_2, with lengths.HA_1 >= 1 and lengths.HA_2 >= 0.
C10_TargetSpanIsArmLengths ==
    Done =>
        \A k \in 1..Len(possible_HAs) :
            LET info == possible_HAs[k]
            IN  /\ info.target_HA_end - info.target_HA_start
                     = info.lengths.HA_1 + info.lengths.HA_2
                /\ info.lengths.HA_1 >= 1
                /\ info.lengths.HA_2 >= 0

\* a resolved candidate whose arms are both longer than one base and whose
\* target span is shorter than its donor window
C10_Witness ==
    /\ Succeeded
    /\ results.lengths.HA_1 > 1
    /\ results.lengths.HA_2 > 1
    /\ TotalLength(results) < results.donor_HA_end - results.donor_HA_start

\* C11: for every candidate that is successfully resolved,
\* donor_HA_end - donor_HA_start = lengths.HA_1 + lengths.HA_2: the donor
\* window and the located target span have the same length.
C11_DonorWindowEqualsArms ==
    Done =>
        \A k \in 1..Len(possible_HAs) :
            LET info == possible_HAs[k]
            IN  info.donor_HA_end - info.donor_HA_start
                  = info.lengths.HA_1 + info.lengths.HA_2

\* C11 (amended): for every resolved candidate lengths.HA_1 + lengths.HA_2 is
\* the length of the located target span and the mismatch scan covers the
\* shorter of span and donor window; the donor window of the returned
\* candidate is tiled by its features HA_1, donor_specific and HA_2, so that
\* donor_HA_end - donor_HA_start = lengths.HA_1 + lengths.HA_2 + the extent
\* (end - start) of donor_specific.
C11_DonorWindowHoldsArmsAndSpecific ==
    Done =>
        /\ \A k \in 1..Len(possible_HAs) :
              LET info == possible_HAs[k]
              IN  /\ info.lengths.HA_1 + info.lengths.HA_2 = TotalLength(info)
                  /\ Len(info.total_mismatches)
                       = Min(TotalLength(info),
                             info.donor_HA_end - info.donor_HA_start)
        /\ Succeeded =>
              LET fs == HA_info.donor_features
              IN  /\ fs[1].id = "HA_1" /\ fs[2].id = "donor_specific"
                  /\ fs[3].id = "HA_2"
                  /\ fs[1].start = results.donor_HA_start
                  /\ fs[1].end - fs[1].start = results.lengths.HA_1
                  /\ fs[2].start = fs[1].end
                  /\ fs[3].start = fs[2].end
                  /\ fs[3].end - fs[3].start = results.lengths.HA_2
                  /\ fs[3].end = results.donor_HA_end
                  /\ results.donor_HA_end - results.donor_HA_start
                       = results.lengths.HA_1 + results.lengths.HA_2
                         + (fs[2].end - fs[2].start)

\* a returned candidate whose donor window is longer than its target span: a
\* donor_specific feature that is not empty lies between the arms
C11_Witness ==
    /\ Succeeded
    /\ results.donor_HA_end - results.donor_HA_start
         > results.lengths.HA_1 + results.lengths.HA_2
    /\ HA_info.donor_features[2].end > HA_info.donor_features[2].start
    /\ results.min_mismatches = 0

\* the ids of a list of features, in order
IdsOf(fs) == [k \in 1..Len(fs) |-> fs[k].id]

\* C12: a successful result carries on the target the features HA_1 and HA_2
\* and no other; on the donor HA_1, donor_specific and HA_2, then
\* PCR_adapter_1 exactly when donor_type is PCR and the region before HA_1 is
\* not empty, then PCR_adapter_2 exactly when donor_type is PCR and the region
\* after HA_2 is not empty, each adapter covering that region; for another
\* donor type no adapter is emitted.
C12_FeatureSets ==
    Succeeded =>
        LET fs == HA_info.donor_features
            before_HA_1 == results.donor_HA_start > 0
            after_HA_2 == results.donor_HA_end < Len(donor_seq)
            adapter_1 == IF donor_type = "PCR" /\ before_HA_1
                         THEN <<[id |-> "PCR_adapter_1", start |-> 0,
                                 end |-> results.donor_HA_start]>>
                         ELSE <<>>
            adapter_2 == IF donor_type = "PCR" /\ after_HA_2
                         THEN <<[id |-> "PCR_adapter_2",
                                 start |-> results.donor_HA_end,
                                 end |-> Len(donor_seq)]>>
                         ELSE <<>>
        IN  /\ IdsOf(HA_info.target_features) = <<"HA_1", "HA_2">>
            /\ IdsOf(SubSeq(fs, 1, 3)) = <<"HA_1", "donor_specific", "HA_2">>
            /\ SubSeq(fs, 4, Len(fs)) = adapter_1 \o adapter_2
            /\ donor_type # "PCR" => Len(fs) = 3

\* a PCR donor with bases on both sides of its homology window, and a donor
\* of another type with bases outside its window
C12_Witness ==
    /\ Succeeded
    /\ results.donor_HA_start > 0
    /\ results.donor_HA_end < Len(donor_seq)
    /\ \/ donor_type = "PCR" /\ Len(HA_info.donor_features) = 5
       \/ donor_type = "plasmid" /\ Len(HA_info.donor_features) = 3

\* the boundary resolution of each compatible pair, taken on its own
ResolutionOf(k) ==
    ResolveCandidate(possible_HA_boundaries[k], donor_seq, target_seq,
                     cut_after, required_match_length)

ResolvedPairs ==
    {k \in 1..Len(possible_HA_boundaries) : ResolutionOf(k).status = "ok"}

\* C13: a compatible pair whose boundary resolution fails does not by itself
\* make the call fail: when at least one compatible pair resolves, the call
\* succeeds and returns a pair that resolved and has the least key among
\* those that resolved.
C13_FailedPairDoesNotFailCall ==
    (Done /\ ResolvedPairs # {}) =>
        /\ HA_info.status = "ok"
        /\ \E k \in ResolvedPairs :
              /\ results = ResolutionOf(k)
              /\ \A j \in ResolvedPairs :
                    ~KeyBelow(KeyOf(ResolutionOf(j)), KeyOf(ResolutionOf(k)))

\* C14: when alignments exist on both sides of the cut and no (before, after)
\* pair satisfies the strand and ordering constraints, the call returns a
\* failure whose reason is 'cannot locate homology arm on <side>'.
C14_NoCompatiblePairNamesSide ==
    (/\ Done
     /\ alignments.before_cut # <<>>
     /\ alignments.after_cut # <<>>
     /\ \A i \in 1..Len(alignments.before_cut) :
           \A j \in 1..Len(alignments.after_cut) :
              ~Compatible(alignments.before_cut[i], alignments.after_cut[j]))
        => \E side \in {"before_cut", "after_cut"} :
              /\ HA_info.status = "failed"
              /\ HA_info.failed
                   = IF side = "before_cut"
                     THEN "cannot locate homology arm on before_cut"
                     ELSE "cannot locate homology arm on after_cut"

\* build_target_info has ended, by return or by exception
Built == pc = "done" /\ perfect_als # <<>>

\* what the homology arms of location k come to
ArmsAt(k) ==
    HA_call(donor_seq, donor_type, perfect_als[k].target_seq,
            perfect_als[k].cut_after, required_match_length)

\* the locations at which evaluate_candidate succeeds, and the reason of the
\* failure at each other one (a call that finds no candidate pair fails for
\* the reason 'cannot locate homology arms')
GoodLocations ==
    {k \in 1..Len(perfect_als) :
        perfect_als[k].primers_found /\ ArmsAt(k).status = "ok"}

ReasonAt(k) ==
    IF ~perfect_als[k].primers_found THEN "primer not present near protospacer"
    ELSE IF ArmsAt(k).status = "raised" THEN "cannot locate homology arms"
    ELSE ArmsAt(k).failed

\* C15: a homology-arm failure at one genomic location marks only that
\* location as failed and the remaining locations are still evaluated; if no
\* location succeeds, the failure reason of every failed location is
\* reported and no GenBank record or manifest is written; if at least one
\* succeeds, the first successful location in alignment order is used.
C15_FailuresAreLocal ==
    Built =>
        /\ Len(good_candidates) + Len(bad_candidates) = Len(perfect_als)
        /\ \A k \in 1..Len(perfect_als) :
              k \notin GoodLocations
                => \E j \in 1..Len(bad_candidates) :
                      /\ bad_candidates[j].location = perfect_als[k].location
                      /\ bad_candidates[j].failed = ReasonAt(k)
        /\ IF GoodLocations = {}
           THEN /\ build.status = "failed"
                /\ build.written = <<>>
                /\ \A k \in 1..Len(perfect_als) :
                      \E j \in 1..Len(build.printed) :
                         build.printed[j]
                           = <<perfect_als[k].location, ReasonAt(k)>>
           ELSE /\ build.status = "written"
                /\ build.written # <<>>
                /\ LET first == CHOOSE k \in GoodLocations :
                                    \A j \in GoodLocations : k <= j
                   IN  build.best_candidate = perfect_als[first].location

\* C17: the before_cut scan tries the seed windows that start at
\* cut_after - required_match_length down to and including 0: whenever one
\* of these windows, target_seq[0 : required_match_length] included, has an
\* alignment, the call does not report 'cannot locate homology arm on
\* before_cut'.
C17_BeforeScanReachesZero ==
    (/\ Done
     /\ \E s \in 0..(cut_after - required_match_length) :
           seed_and_extend(donor_seq, target_seq, s,
                           s + required_match_length) # <<>>)
        => HA_info # Failure("cannot locate homology arm on before_cut")

\* the alignments of the seed window that starts at s
HitsAt(s) ==
    seed_and_extend(donor_seq, target_seq, s, s + required_match_length)

\* window s is nearer the cut than window t on the given side
Nearer(side, s, t) == IF side = "before_cut" THEN s > t ELSE s < t

ElementsOf(list) == {list[k] : k \in 1..Len(list)}

\* C18: on each side the alignments used are those of the seed window
\* closest to the cut that has at least one alignment: every window of the
\* scan nearer the cut has none, and every pair of the pairing is made of
\* these alignments.
C18_ClosestSeedWindowUsed ==
    Done =>
        /\ \A side \in {"before_cut", "after_cut"} :
              alignments[side] # <<>> =>
                \E s \in ScanRange(side) :
                   /\ alignments[side] = HitsAt(s)
                   /\ \A t \in ScanRange(side) :
                         Nearer(side, t, s) => HitsAt(t) = <<>>
        /\ \A k \in 1..Len(possible_HA_boundaries) :
              /\ possible_HA_boundaries[k].before_al
                   \in ElementsOf(alignments.before_cut)
              /\ possible_HA_boundaries[k].after_al
                   \in ElementsOf(alignments.after_cut)

\* a call that paired alignments of both sides and succeeded, while on one
\* side a window farther from the cut than the one used has an alignment
\* that was not used
C18_Witness ==
    /\ Succeeded
    /\ possible_HA_boundaries # <<>>
    /\ \E side \in {"before_cut", "after_cut"} :
          \E s \in ScanRange(side) :
             /\ alignments[side] # HitsAt(s)
             /\ \E a \in ElementsOf(HitsAt(s)) :
                   a \notin ElementsOf(alignments[side])

\* the (before, after) pairs the claim lets through, in donor coordinates
KeptPairs ==
    {p \in ElementsOf(alignments.before_cut) \X ElementsOf(alignments.after_cut) :
        \/ p[1].strand = "+" /\ p[2].strand = "+"
           /\ p[1].reference_end < p[2].reference_start
        \/ p[1].strand = "-" /\ p[2].strand = "-"
           /\ p[1].reference_start > p[2].reference_end}

\* C19: a candidate window is generated for a (before, after) pair if and
\* only if both alignments have the same strand and, for '+',
\* before.reference_end < after.reference_start or, for '-',
\* before.reference_start > after.reference_end; each such pair gives one
\* candidate, and pairs of different strands, overlapping, touching or
\* inverted alignments give none.
C19_CandidateIffCompatible ==
    Done =>
        /\ {<<possible_HA_boundaries[k].before_al,
               possible_HA_boundaries[k].after_al>> :
                k \in 1..Len(possible_HA_boundaries)} = KeptPairs
        /\ Len(possible_HA_boundaries) = Cardinality(KeptPairs)

\* a call in which one pair gave a candidate, a pair of one strand was
\* dropped because its alignments touch or overlap in the donor, and a pair
\* was dropped because its strands differ
C19_Witness ==
    /\ Done
    /\ possible_HA_boundaries # <<>>
    /\ \E b \in ElementsOf(alignments.before_cut) :
          \E a \in ElementsOf(alignments.after_cut) :
             /\ b.strand = "+" /\ a.strand = "+"
             /\ b.reference_end = a.reference_start
    /\ \E b \in ElementsOf(alignments.before_cut) :
          \E a \in ElementsOf(alignments.after_cut) : b.strand # a.strand

\* the positions at which the prefix of a candidate's donor window occurs
\* entirely within target_seq[0 : cut_after + required_match_length], and
\* those at or after cut_after - required_match_length at which its suffix
\* occurs
PrefixPlaces(info) ==
    LET prefix == Slice(WindowOf(info), 0, required_match_length)
    IN  {i \in 0..Len(target_seq) :
            /\ OccursAt(target_seq, prefix, i)
            /\ i + Len(prefix) <= cut_after + required_match_length}

SuffixPlaces(info) ==
    LET suffix == Tail_k(WindowOf(info), required_match_length)
    IN  {i \in 0..Len(target_seq) :
            /\ OccursAt(target_seq, suffix, i)
            /\ i >= cut_after - required_match_length}

\* C20: for a resolved candidate, target_HA_start is the start of the
\* rightmost occurrence of the donor window's first required_match_length
\* characters lying entirely within target_seq[0 : cut_after +
\* required_match_length], and target_HA_end is the end of the leftmost
\* occurrence of the window's last required_match_length characters starting
\* at or after cut_after - required_match_length.
C20_ClosestOccurrences ==
    Done =>
        \A k \in 1..Len(possible_HAs) :
            LET info == possible_HAs[k]
                suffix == Tail_k(WindowOf(info), required_match_length)
            IN  /\ info.target_HA_start \in PrefixPlaces(info)
                /\ \A i \in PrefixPlaces(info) : i <= info.target_HA_start
                /\ info.target_HA_end - Len(suffix) \in SuffixPlaces(info)
                /\ \A i \in SuffixPlaces(info) :
                      i >= info.target_HA_end - Len(suffix)

\* a returned candidate whose prefix and suffix both occur more than once in
\* the part of the target that is searched
C20_Witness ==
    /\ Succeeded
    /\ Cardinality(PrefixPlaces(results)) > 1
    /\ Cardinality(SuffixPlaces(results)) > 1

\* the two arrays of the mismatch scan of a resolved candidate
BeforeOf(info) == mismatches_before_deletion(SpanOf(info), WindowOf(info))

AfterOf(info) == mismatches_after_deletion(SpanOf(info), WindowOf(info))

\* C21: for every crossover index i in [0, total_HA_length),
\* mismatches_before[i] is the number of positions p in 0..i with
\* relevant_target_seq[p] != donor_window[p], and mismatches_after[i] the
\* number of positions p in i+1..total_HA_length-1 with
\* relevant_target_seq[p] != donor_window[p], the same position p in both
\* sequences.
C21_SamePositionCounts ==
    Done =>
        \A k \in 1..Len(possible_HAs) :
            LET info == possible_HAs[k]
                t == SpanOf(info)
                d == WindowOf(info)
                n == TotalLength(info)
            IN  /\ Len(BeforeOf(info)) = n
                /\ Len(AfterOf(info)) = n
                /\ Len(d) >= n
                /\ \A i \in 0..(n - 1) :
                      /\ BeforeOf(info)[i + 1]
                           = Cardinality({p \in 0..i : t[p + 1] # d[p + 1]})
                      /\ AfterOf(info)[i + 1]
                           = Cardinality({p \in (i + 1)..(n - 1) :
                                             t[p + 1] # d[p + 1]})

\* C21 (amended): both arrays have min(total_HA_length, len(donor_window))
\* entries; mismatches_before[i] is the number of positions p in 0..i with
\* relevant_target_seq[p] != donor_window[p], the sequences compared from
\* their left ends, and mismatches_after[i] is the number of the last
\* (entries - 1 - i) positions at which they differ when compared from their
\* right ends: relevant_target_seq[total_HA_length - k] !=
\* donor_window[len(donor_window) - k] for k in 1..entries-1-i. The two
\* comparisons meet at the same position p only when window and span have the
\* same length. total_mismatches is their sum.
C21_LeftAndRightAlignedCounts ==
    Done =>
        \A k \in 1..Len(possible_HAs) :
            LET info == possible_HAs[k]
                t == SpanOf(info)
                d == WindowOf(info)
                n == Min(Len(t), Len(d))
            IN  /\ Len(BeforeOf(info)) = n
                /\ Len(AfterOf(info)) = n
                /\ Len(info.total_mismatches) = n
                /\ \A i \in 0..(n - 1) :
                      /\ BeforeOf(info)[i + 1]
                           = Cardinality({p \in 0..i : t[p + 1] # d[p + 1]})
                      /\ AfterOf(info)[i + 1]
                           = Cardinality({j \in 1..(n - 1 - i) :
                                             t[Len(t) + 1 - j] # d[Len(d) + 1 - j]})
                      /\ info.total_mismatches[i + 1]
                           = BeforeOf(info)[i + 1] + AfterOf(info)[i + 1]

\* a returned candidate whose donor window is longer than its target span
\* and for which some index has a count from the right ends that differs
\* from the count at the same positions
C21_Witness ==
    /\ Succeeded
    /\ Len(WindowOf(results)) > Len(SpanOf(results))
    /\ \E i \in 0..(TotalLength(results) - 1) :
          AfterOf(results)[i + 1]
            # Cardinality({p \in (i + 1)..(TotalLength(results) - 1) :
                              SpanOf(results)[p + 1] # WindowOf(results)[p + 1]})

\* C22: on every input on which the simplified identification of
\* generate_records produces arm lengths, identify_homology_arms, called for
\* a donor that is not a PCR product, succeeds with the same donor
\* orientation and the same lengths HA_1, HA_2 and donor_specific.
C22_SimplifiedIsSubset ==
    (/\ Done
     /\ donor_type # "PCR"
     /\ generate_records(donor_seq, target_seq).status = "ok")
        => /\ HA_info.status = "ok"
           /\ HA_info.possibly_flipped_donor_seq
                = generate_records(donor_seq, target_seq).possibly_flipped_donor_seq
           /\ results.lengths = generate_records(donor_seq, target_seq).lengths

\* C23: in every successful result the located target span encloses the cut:
\* target_HA_start <= cut_after <= target_HA_end, so that the target feature
\* HA_1 starts at or before the cut and the target feature HA_2 ends at or
\* after it.
C23_SpanEnclosesCut ==
    Succeeded =>
        /\ results.target_HA_start <= cut_after
        /\ cut_after <= results.target_HA_end
        /\ HA_info.target_features[1].id = "HA_1"
        /\ HA_info.target_features[1].start <= cut_after
        /\ HA_info.target_features[2].id = "HA_2"
        /\ HA_info.target_features[2].end >= cut_after

\* a successful result whose suffix also occurs in the target to the left of
\* where the search for it starts, and whose span ends right at the cut
C23_Witness ==
    /\ Succeeded
    /\ results.target_HA_end = cut_after
    /\ \E i \in 0..(cut_after - required_match_length - 1) :
          OccursAt(target_seq,
                   Tail_k(WindowOf(results), required_match_length), i)

DonorLayout ==
    LET fs == HA_info.donor_features
        named(id) == SelectSeq(fs, LAMBDA f : f.id = id)
    IN  named("PCR_adapter_1") \o named("HA_1") \o named("donor_specific")
        \o named("HA_2") \o named("PCR_adapter_2")

Spelled(seq, f) == Slice(seq, f.start, f.end)

\* C26: whenever the winning candidate has min_mismatches = 0, the feature
\* HA_1 spells on possibly_flipped_donor_seq the sequence the feature HA_1
\* spells on target_seq, and likewise for HA_2.
C26_PerfectArmsAgree ==
    (Succeeded /\ results.min_mismatches = 0) =>
        /\ Spelled(HA_info.possibly_flipped_donor_seq, HA_info.donor_features[1])
             = Spelled(target_seq, HA_info.target_features[1])
        /\ Spelled(HA_info.possibly_flipped_donor_seq, HA_info.donor_features[3])
             = Spelled(target_seq, HA_info.target_features[2])
        /\ HA_info.donor_features[1].start >= 0
        /\ HA_info.donor_features[3].start >= 0
        /\ HA_info.donor_features[1].id = "HA_1"
        /\ HA_info.target_features[1].id = "HA_1"
        /\ HA_info.donor_features[3].id = "HA_2"
        /\ HA_info.target_features[2].id = "HA_2"

\* a winning candidate without mismatches whose arms are of different
\* lengths, both longer than one base, with donor-specific sequence between
\* them
C26_Witness ==
    /\ Succeeded
    /\ results.min_mismatches = 0
    /\ results.lengths.HA_1 > 1
    /\ results.lengths.HA_2 > 1
    /\ results.lengths.HA_1 # results.lengths.HA_2
    /\ HA_info.donor_features[2].end > HA_info.donor_features[2].start

\* the entry of TargetInfo.cut_afters under a key
CutAfterOf(key) ==
    (CHOOSE e \in ElementsOf(memo.cut_afters.value) : e.key = key).cut_after

SpCas9Guides ==
    {k \in 1..Len(ti.sgRNA_features) :
        ti.sgRNA_features[k].attribute.effector = "SpCas9"}

\* TargetInfo.cut_afters leaves three protospacer bases between the cut and
\* the PAM on both strands
C27_ThreeBasesToPAM ==
    memo.cut_afters.status = "ok" =>
        \A k \in SpCas9Guides :
            LET sgRNA == ti.sgRNA_features[k]
            IN  CutAfterOf(sgRNA.ID) = IF sgRNA.strand = "+"
                                       THEN sgRNA.end - 3
                                       ELSE sgRNA.start + 2

\* build_target_info passes the cut_after of TargetInfo.cut_afters
C27_PassedToHomologyArms ==
    (memo.cut_afters.status = "ok" /\ pc = "done" /\ 1 \in SpCas9Guides) =>
        /\ build.status = "cut"
        /\ cut_after = CutAfterOf(ti.sgRNA_features[1].ID)

\* C27: for an SpCas9 guide, TargetInfo.cut_afters is sgRNA.end - 3 on the
\* '+' strand and sgRNA.start + 2 on the '-' strand, and it is the cut_after
\* build_target_info passes to identify_homology_arms for that guide
C27_CutAfterOfGuide == C27_ThreeBasesToPAM /\ C27_PassedToHomologyArms

\* C28: parsing the string of a degenerate deletion or insertion gives back
\* an equal indel with the same hash
C28_StringRoundTrip ==
    pc = "parsed" => /\ eq(parsed, indel)
                     /\ hashed(parsed) = hashed(indel)

\* an insertion of two-base sequences at several two-digit positions has
\* been written out with braces and parsed back
C28_Witness ==
    /\ pc = "parsed"
    /\ indel.kind = "I"
    /\ Len(indel.starts_afters) = 3
    /\ indel.starts_afters[1] > indel.starts_afters[2]
    /\ indel.starts_afters[2] >= 10
    /\ Len(indel.seqs) = 3
    /\ Len(indel.seqs[1]) = 2
    /\ details_string[3] = "{"

\* the target sequence without the length bases from starts_at on
Deleted(seq, starts_at, length) ==
    [i \in 1..(Len(seq) - length) |->
        IF i <= starts_at THEN seq[i] ELSE seq[i + length]]

\* the single-start deletions identify_degenerate_indels scans
ScannedDeletions ==
    LET first == ti.primers_by_side_of_target[5].start
        stop == ti.primers_by_side_of_target[3].end
    IN  UNION {{DegenerateDeletion(<<starts_at>>, length) :
                  length \in {l \in 1..(DeletionLengthStop - 1) :
                                 starts_at + l < Len(ti.target_sequence)}} :
               starts_at \in first..(stop - 1)}

Equivalent(a, b) ==
    Deleted(ti.target_sequence, a.starts_ats[1], a.length)
        = Deleted(ti.target_sequence, b.starts_ats[1], b.length)

Expanded(d) == expand_degenerate_indel(memo.degenerate_indels.value, d)

\* C29: once the files are written and read back, two scanned single-start
\* deletions expand to equal values exactly when deleting each of them from
\* the target sequence gives the same sequence, and a deletion that no other
\* scanned deletion is equivalent to expands to itself
C29_ExpandedIffEquivalent ==
    pc = "expand" =>
        \A a \in ScannedDeletions :
            /\ \A b \in ScannedDeletions :
                  eq(Expanded(a), Expanded(b)) <=> Equivalent(a, b)
            /\ (\A b \in ScannedDeletions : Equivalent(a, b) => b = a)
                  => Expanded(a) = a

\* the files have been read back for a target with two scanned deletions of
\* two bases that are equivalent, a third of that length that is equivalent
\* to neither, and one that no other is equivalent to
C29_Witness ==
    /\ pc = "expand"
    /\ \E a, b, c \in ScannedDeletions :
          /\ a.length = 2 /\ b.length = 2 /\ c.length = 2
          /\ a # b
          /\ Equivalent(a, b)
          /\ ~Equivalent(a, c)
          /\ Len(Expanded(a).starts_ats) > 1
    /\ \E d \in ScannedDeletions :
          /\ \A b \in ScannedDeletions : Equivalent(d, b) => b = d
          /\ Expanded(d) = d

ClassesOf(made) ==
    LET classes == degenerate_classes(made)
    IN  {classes[i] : i \in 1..Len(classes)}

\* C30: identify_degenerate_indels raises from neither collapse: the
\* deletions of a degenerate class all have one length, and so have the
\* inserted sequences of the insertions of a degenerate class
C30_CollapseNeverRaises ==
    pc = "identified" =>
        /\ fns.status = "written"
        /\ \A class \in ClassesOf(made_deletions(ti)) :
              \A i, j \in 1..Len(class) : class[i].length = class[j].length
        /\ \A class \in ClassesOf(made_insertions(ti)) :
              \A i, j \in 1..Len(class) :
                 Len(class[i].seqs[1]) = Len(class[j].seqs[1])

\* the two files are written, with a class of three deletions and a class
\* of three insertions collapsed into one line each
C30_Witness ==
    /\ pc = "identified"
    /\ fns.status = "written"
    /\ \E i \in 1..Len(fns.degenerate_deletions) :
          Len(degenerate_indel_from_string(fns.degenerate_deletions[i]).starts_ats) = 3
    /\ \E i \in 1..Len(fns.degenerate_insertions) :
          Len(degenerate_indel_from_string(fns.degenerate_insertions[i]).seqs) = 3

====
